---------------------------- MODULE Spec2Model ----------------------------
(***************************************************************************)
(* Model of the trust-and-privacy core of robrix's social features:        *)
(*   - privacy/mod.rs and privacy/sharing_guard.rs (PrivacyLevel,          *)
(*     SharingGuard::validate_share, can_share)                            *)
(*   - events/rsvp.rs (validate_rsvp_event, RsvpService)                   *)
(*   - reactions.rs (ReactionSummary)                                      *)
(*   - newsfeed/feed_aggregator.rs (FeedAggregator)                        *)
(* Each component is an independent library object, so each has its own    *)
(* next-state relation and specification over the shared variables.        *)
(***************************************************************************)
EXTENDS Integers, Sequences, FiniteSets, TLC

VARIABLES
    shareCall,      \* a SharingGuard call: function and arguments
    shareResult,    \* what that call returned
    rsvpEvent,      \* the state event handed to validate_rsvp_event
    rsvpSender,     \* the actual sender handed to validate_rsvp_event
    rsvpValidation, \* what validate_rsvp_event returned
    clientUser,     \* client.user_id(): the logged-in user, or NoUser
    roomState,      \* the event room's org.social.rsvp state, by state_key
    serviceCall,    \* the last RsvpService call made in this room state
    serviceResult,  \* what that call returned
    summary,        \* a post's ReactionSummary
    other,          \* a second ReactionSummary, built by add_reaction alone
    otherAdded,     \* the (emoji, user, event id) triples add_reaction got on other
    removed,        \* what the last call, if a remove_reaction, returned
    top,            \* what the last call, if a top_reactions, was given and returned
    aggregator,     \* a FeedAggregator: feed_rooms and sort_order
    timeline,       \* what fetching each room the client knows yields
    feedCall,       \* the last FeedAggregator call
    feedResult,     \* what that call returned
    lastRoomCall,   \* per room, whether it was last added or removed, if ever
    fetches,        \* the rooms the last get_aggregated_feed fetched, in call order
    settings,       \* a FeedFilterSettings
    feedItems,      \* the feed items handed to FeedFilterSettings::apply
    now,            \* the time of the call, in milliseconds since the epoch
    filterResult,   \* what the last FeedFilterSettings call returned
    metadata,       \* a post's PostMetadata
    postResult,     \* what the last PostMetadata call, if a last_modified, returned
    profileClient,  \* client.user_id() of the ProfileRoomService: Some(user) or None
    directory,      \* the homeserver's room directory: room alias to room id
    profileRooms,   \* the rooms the homeserver created for the service, oldest first
    profileCreated, \* the room ids create_profile_room returned with Ok, oldest first
    profileCall,    \* the last ProfileRoomService call
    profileResult,  \* what that call returned
    friendsClient,  \* client.user_id() of the FriendsSpaceService: Some(user) or None
    joinedRooms,    \* client.joined_rooms(), in the order the client lists them
    space_id,       \* FriendsSpaceService::space_id, the cached id
    friendsCall,    \* the last FriendsSpaceService call and what it did on the way
    friendsResult,  \* what that call returned
    eventRoom,      \* the event room create_event made, if any, with its power levels
    eventCall,      \* the last EventRoomService call or member's attempt in the room
    eventResult     \* what that call returned, or whether the homeserver let it pass

shareVars == <<shareCall, shareResult>>
validateVars == <<rsvpEvent, rsvpSender, rsvpValidation>>
serviceVars == <<clientUser, roomState, serviceCall, serviceResult>>
reactionVars == <<summary, other, otherAdded, removed, top>>
feedVars == <<aggregator, timeline, feedCall, feedResult, lastRoomCall, fetches>>
filterVars == <<settings, feedItems, now, filterResult>>
coreVars == <<shareVars, validateVars, serviceVars, reactionVars, feedVars>>
postVars == <<metadata, postResult>>
profileVars == <<profileClient, directory, profileRooms, profileCreated,
                 profileCall, profileResult>>
friendsVars == <<friendsClient, joinedRooms, space_id, friendsCall, friendsResult>>
eventVars == <<eventRoom, eventCall, eventResult>>
socialVars == <<filterVars, postVars, profileVars, friendsVars, eventVars>>
vars == <<coreVars, socialVars>>

(***************************************************************************)
(* Bounds and input domains                                                *)
(***************************************************************************)
MaxMentions == 2
MaxAttachments == 2
MaxKeyLen == 4
MaxGuests == 1
MaxOtherAdds == 3
MaxTopLimit == 2
MaxFeedLimit == 3
MaxFilterItems == 3
MaxEdits == 3
MaxProfileRooms == 2
MaxFriendsRooms == 2

Users == {"@alice:example.org", "@bob:example.org"}
Rooms == {"!attachment:example.org", "!other:example.org"}

RECURSIVE SeqsUpTo(_, _)
SeqsUpTo(S, n) ==
    IF n = 0 THEN {<<>>}
    ELSE LET shorter == SeqsUpTo(S, n - 1)
         IN  shorter \cup {Append(s, x) : s \in {t \in shorter : Len(t) = n - 1}, x \in S}

(***************************************************************************)
(* privacy/mod.rs                                                          *)
(***************************************************************************)
PrivacyLevel == {"Public", "Friends", "CloseFriends", "Private"}

\* Mutant: Private given the ordinal of CloseFriends.
ordinal_private_as_close == [Public |-> 0, Friends |-> 1, CloseFriends |-> 2, Private |-> 2]

ordinal == [Public |-> 0, Friends |-> 1, CloseFriends |-> 2, Private |-> 3]

\* Mutant: the comparison made strict, so that no level shares to itself.
can_share_to_strict(self, destination) == ordinal[destination] > ordinal[self]

can_share_to(self, destination) == ordinal[destination] >= ordinal[self]

Allowed == [tag |-> "Allowed"]

BlockedPrivacyLeak(source_privacy, target_privacy) ==
    [tag |-> "BlockedPrivacyLeak",
     source_privacy |-> source_privacy,
     target_privacy |-> target_privacy]

AttachmentPrivacyMismatch(attachment) ==
    [tag |-> "AttachmentPrivacyMismatch",
     attachment_room |-> attachment[1],
     attachment_privacy |-> attachment[2]]

\* Mutant: Rule 2 left out, every attachment passes.
check_attachments_skipped(attachments, target_privacy, i) == Allowed

\* Mutant: the loop keeps going and reports the last offending attachment.
check_attachments_last(attachments, target_privacy, i) ==
    LET bad == {j \in i..Len(attachments) :
                    ordinal[target_privacy] < ordinal[attachments[j][2]]}
    IN  IF bad = {} THEN [tag |-> "Allowed"]
        ELSE LET j == CHOOSE k \in bad : \A m \in bad : m <= k
             IN  [tag |-> "AttachmentPrivacyMismatch",
                  attachment_room |-> attachments[j][1],
                  attachment_privacy |-> attachments[j][2]]

\* The for loop of Rule 2 from position i on: the first attachment that cannot
\* be shared to the target decides, otherwise the call falls through to Allowed.
RECURSIVE check_attachments(_, _, _)
check_attachments(attachments, target_privacy, i) ==
    IF i > Len(attachments) THEN Allowed
    ELSE IF ~can_share_to(attachments[i][2], target_privacy)
         THEN AttachmentPrivacyMismatch(attachments[i])
         ELSE check_attachments(attachments, target_privacy, i + 1)

\* Mutant: the Friends -> Public softening of sharing_guard.rs copied in front
\* of Rule 1.
validate_share_with_confirmation(source_privacy, target_privacy, mentions, attachments) ==
    IF source_privacy = "Friends" /\ target_privacy = "Public"
    THEN [tag |-> "RequiresConfirmation", warning |-> "friends-only content"]
    ELSE IF ordinal[target_privacy] < ordinal[source_privacy]
    THEN [tag |-> "BlockedPrivacyLeak", source_privacy |-> source_privacy,
          target_privacy |-> target_privacy]
    ELSE check_attachments(attachments, target_privacy, 1)

validate_share(source_privacy, target_privacy, mentions, attachments) ==
    IF ~can_share_to(source_privacy, target_privacy)
    THEN BlockedPrivacyLeak(source_privacy, target_privacy)
    ELSE check_attachments(attachments, target_privacy, 1)

can_share(source, target) == can_share_to(source, target)

(***************************************************************************)
(* privacy/sharing_guard.rs                                                *)
(***************************************************************************)
discriminant == [Public |-> 0, Friends |-> 1, CloseFriends |-> 2, Private |-> 3]

guard_can_share_to(self, target) == discriminant[target] >= discriminant[self]

privacy_level_name ==
    [Public |-> "public", Friends |-> "friends-only",
     CloseFriends |-> "close friends", Private |-> "private"]

RequiresConfirmation(warning) == [tag |-> "RequiresConfirmation", warning |-> warning]

GuardBlockedPrivacyLeak(source, target) ==
    [tag |-> "BlockedPrivacyLeak", source |-> source, target |-> target,
     message |-> <<"Cannot share ", privacy_level_name[source], " content to ",
                   privacy_level_name[target], " audience">>]

MissingMentions(missing_users) ==
    [tag |-> "MissingMentions", missing_users |-> missing_users]

contains(slice, x) == \E i \in 1..Len(slice) : slice[i] = x

missing_mentions(mentioned_users, target_members) ==
    SelectSeq(mentioned_users, LAMBDA u : ~contains(target_members, u))

\* Mutant: the general leak rule evaluated before the Friends -> Public case.
guard_validate_share_leak_first(source_privacy, target_privacy, mentioned_users, target_members) ==
    IF ~guard_can_share_to(source_privacy, target_privacy)
    THEN GuardBlockedPrivacyLeak(source_privacy, target_privacy)
    ELSE IF source_privacy = "Friends" /\ target_privacy = "Public"
    THEN RequiresConfirmation("You are about to share friends-only content publicly.")
    ELSE LET missing == missing_mentions(mentioned_users, target_members)
         IN  IF missing # <<>> THEN MissingMentions(missing) ELSE Allowed

\* Mutant: the leak rule left out, only the Friends -> Public case is held back.
guard_validate_share_no_leak_rule(source_privacy, target_privacy, mentioned_users, target_members) ==
    IF source_privacy = "Friends" /\ target_privacy = "Public"
    THEN [tag |-> "RequiresConfirmation",
          warning |-> "You are about to share friends-only content publicly."]
    ELSE LET missing == missing_mentions(mentioned_users, target_members)
         IN  IF missing # <<>> THEN [tag |-> "MissingMentions", missing_users |-> missing]
             ELSE [tag |-> "Allowed"]

guard_validate_share(source_privacy, target_privacy, mentioned_users, target_members) ==
    IF source_privacy = "Friends" /\ target_privacy = "Public"
    THEN RequiresConfirmation("You are about to share friends-only content publicly.")
    ELSE IF ~guard_can_share_to(source_privacy, target_privacy)
    THEN GuardBlockedPrivacyLeak(source_privacy, target_privacy)
    ELSE LET missing == missing_mentions(mentioned_users, target_members)
         IN  IF missing # <<>> THEN MissingMentions(missing) ELSE Allowed

\* Mutant: equal levels taken as a quote out of a more private room.
validate_quote_non_strict(original_room_privacy, reply_room_privacy) ==
    IF discriminant[original_room_privacy] >= discriminant[reply_room_privacy]
    THEN [tag |-> "RequiresConfirmation",
          warning |-> "Your reply quotes content from a more private room. This may expose private information."]
    ELSE [tag |-> "Allowed"]

\* The derived PartialOrd of the enum compares the discriminants.
validate_quote(original_room_privacy, reply_room_privacy) ==
    IF discriminant[original_room_privacy] > discriminant[reply_room_privacy]
    THEN RequiresConfirmation("Your reply quotes content from a more private room. This may expose private information.")
    ELSE Allowed

(***************************************************************************)
(* Calls of the sharing guard                                              *)
(***************************************************************************)
NoResult == [tag |-> "none"]

\* Arguments of privacy::SharingGuard::validate_share.  target_room_members is
\* the membership of _target_room at the time of the call; the function has no
\* parameter for it and does not consult it.
ValidateShareCalls ==
    [fn : {"privacy::validate_share"},
     source_privacy : PrivacyLevel,
     target_privacy : PrivacyLevel,
     mentions : SeqsUpTo(Users, MaxMentions),
     attachments : SeqsUpTo(Rooms \X PrivacyLevel, MaxAttachments),
     target_room_members : SUBSET Users]

\* Arguments of privacy::sharing_guard::SharingGuard::validate_share
GuardValidateShareCalls ==
    [fn : {"sharing_guard::validate_share"},
     source_privacy : PrivacyLevel,
     target_privacy : PrivacyLevel,
     mentioned_users : SeqsUpTo(Users, MaxMentions),
     target_members : SeqsUpTo(Users, MaxMentions)]

\* Arguments of privacy::SharingGuard::can_share
CanShareCalls ==
    [fn : {"privacy::can_share"},
     source_privacy : PrivacyLevel,
     target_privacy : PrivacyLevel]

\* Arguments of privacy::PrivacyLevel::can_share_to
CanShareToCalls ==
    [fn : {"PrivacyLevel::can_share_to"},
     self : PrivacyLevel,
     destination : PrivacyLevel]

\* Arguments of privacy::sharing_guard::SharingGuard::validate_quote
ValidateQuoteCalls ==
    [fn : {"sharing_guard::validate_quote"},
     original_room_privacy : PrivacyLevel,
     reply_room_privacy : PrivacyLevel]

ValidateShare ==
    /\ shareCall.fn = "privacy::validate_share"
    /\ shareResult = NoResult
    /\ shareResult' = validate_share(shareCall.source_privacy, shareCall.target_privacy,
                                     shareCall.mentions, shareCall.attachments)
    /\ UNCHANGED <<shareCall, validateVars, serviceVars, reactionVars, feedVars, socialVars>>

GuardValidateShare ==
    /\ shareCall.fn = "sharing_guard::validate_share"
    /\ shareResult = NoResult
    /\ shareResult' = guard_validate_share(shareCall.source_privacy, shareCall.target_privacy,
                                           shareCall.mentioned_users, shareCall.target_members)
    /\ UNCHANGED <<shareCall, validateVars, serviceVars, reactionVars, feedVars, socialVars>>

CanShare ==
    /\ shareCall.fn = "privacy::can_share"
    /\ shareResult = NoResult
    /\ shareResult' = [tag |-> "bool",
                       value |-> can_share(shareCall.source_privacy, shareCall.target_privacy)]
    /\ UNCHANGED <<shareCall, validateVars, serviceVars, reactionVars, feedVars, socialVars>>

CanShareTo ==
    /\ shareCall.fn = "PrivacyLevel::can_share_to"
    /\ shareResult = NoResult
    /\ shareResult' = [tag |-> "bool",
                       value |-> can_share_to(shareCall.self, shareCall.destination)]
    /\ UNCHANGED <<shareCall, validateVars, serviceVars, reactionVars, feedVars, socialVars>>

ValidateQuote ==
    /\ shareCall.fn = "sharing_guard::validate_quote"
    /\ shareResult = NoResult
    /\ shareResult' = validate_quote(shareCall.original_room_privacy,
                                     shareCall.reply_room_privacy)
    /\ UNCHANGED <<shareCall, validateVars, serviceVars, reactionVars, feedVars, socialVars>>

ShareInit ==
    /\ shareCall \in ValidateShareCalls \cup GuardValidateShareCalls \cup CanShareCalls
                          \cup CanShareToCalls \cup ValidateQuoteCalls
    /\ shareResult = NoResult

ShareIdle ==
    /\ shareCall = [fn |-> "none"]
    /\ shareResult = NoResult

ShareNext ==
    \/ ValidateShare
    \/ GuardValidateShare
    \/ CanShare
    \/ CanShareTo
    \/ ValidateQuote

(***************************************************************************)
(* events/rsvp.rs: validate_rsvp_event                                     *)
(***************************************************************************)
\* Strings are sequences of characters; state keys are arbitrary strings.
Chars == {"@", ":", "a", "b"}
HostChars == {"a", "b"}
Strings == SeqsUpTo(Chars, MaxKeyLen)

\* Whether OwnedUserId::try_from accepts s: the '@' sigil, a localpart
\* without ':', the first ':' and a non-empty server name.
is_user_id(s) ==
    /\ Len(s) >= 1
    /\ s[1] = "@"
    /\ \E c \in 2..Len(s) :
        /\ s[c] = ":"
        /\ \A k \in 2..(c - 1) : s[k] # ":"
        /\ c < Len(s)
        /\ \A k \in (c + 1)..Len(s) : s[k] \in HostChars

\* OwnedUserId::try_from(String): the identifier keeps the string as it is.
try_from(s) == IF is_user_id(s) THEN [tag |-> "Ok", value |-> s] ELSE [tag |-> "Err"]

UserIds == {s \in Strings : is_user_id(s)}

EventTypes == {"org.social.rsvp", "m.room.topic"}

Valid == [tag |-> "Valid"]
SenderMismatch(claimed, actual) ==
    [tag |-> "SenderMismatch", claimed |-> claimed, actual |-> actual]
InvalidContent(message) == [tag |-> "InvalidContent", message |-> message]

\* Mutant: the state_key is parsed but never compared with the sender.
validate_rsvp_event_unchecked(event, sender) ==
    IF event.event_type = "org.social.rsvp" /\ ~is_user_id(event.state_key)
    THEN [tag |-> "InvalidContent", message |-> <<"Invalid state_key: ", event.state_key>>]
    ELSE [tag |-> "Valid"]

validate_rsvp_event(event, sender) ==
    IF event.event_type = "org.social.rsvp"
    THEN LET state_key == event.state_key
             parsed == try_from(state_key)
         IN  IF parsed.tag = "Ok"
             THEN IF parsed.value # sender
                  THEN SenderMismatch(parsed.value, sender)
                  ELSE Valid
             ELSE InvalidContent(<<"Invalid state_key: ", state_key>>)
    ELSE Valid

ValidateRsvpEvent ==
    /\ rsvpValidation = NoResult
    /\ rsvpEvent.event_type \in EventTypes
    /\ rsvpValidation' = validate_rsvp_event(rsvpEvent, rsvpSender)
    /\ UNCHANGED <<rsvpEvent, rsvpSender, shareVars, serviceVars, reactionVars, feedVars, socialVars>>

ValidateInit ==
    /\ rsvpEvent \in [event_type : EventTypes, state_key : Strings]
    /\ rsvpSender \in UserIds
    /\ rsvpValidation = NoResult

ValidateIdle ==
    /\ rsvpEvent = [event_type |-> "none", state_key |-> <<>>]
    /\ rsvpSender = <<>>
    /\ rsvpValidation = NoResult

ValidateNext == ValidateRsvpEvent

(***************************************************************************)
(* events/rsvp.rs: RsvpService                                             *)
(***************************************************************************)
Alice == <<"@", "a", ":", "a">>
Bob == <<"@", "b", ":", "a">>
NotAUserId == <<"b", "o", "b">>

Members == {Alice, Bob}              \* who can send state events to the room
RoomKeys == <<Alice, Bob, NotAUserId>>  \* the state keys they use, in key order
NoUser == <<>>

EventRoom == "!event:example.org"
ClientRooms == {EventRoom}           \* the rooms client.get_room finds
RoomIds == {EventRoom, "!unknown:example.org"}

RsvpStatus == {"Going", "Interested", "NotGoing"}
GuestCounts == 0..MaxGuests          \* guests: u32
NoEvent == [sender |-> NoUser]

\* robrix-social-events: SocialRsvpEventContent as it is decoded.  The JSON
\* content of an event carries a status and may carry a guests number.
default_guests == 1

RsvpContentJson ==
    [status : RsvpStatus] \cup [status : RsvpStatus, guests : GuestCounts]

\* The derived Deserialize: a missing guests field takes default_guests, a
\* present one is taken as it is.
deserialize(json) ==
    [status |-> json.status,
     guests |-> IF "guests" \in DOMAIN json THEN json.guests ELSE default_guests]

Ok(value) == [tag |-> "Ok", value |-> value]
Err(error) == [tag |-> "Err", error |-> error]

\* The room's RSVP state events, as sync would deliver them.
room_events ==
    SelectSeq([i \in 1..Len(RoomKeys) |->
                  [state_key |-> RoomKeys[i], event |-> roomState[RoomKeys[i]]]],
              LAMBDA e : e.event # NoEvent)

RECURSIVE unvalidated_rsvps(_)
unvalidated_rsvps(events) ==
    IF events = <<>> THEN <<>>
    ELSE LET e == Head(events)
             rest == unvalidated_rsvps(Tail(events))
         IN  IF is_user_id(e.state_key)
             THEN <<[user_id |-> e.state_key, status |-> e.event.status,
                     guests |-> e.event.guests]>> \o rest
             ELSE rest

\* Mutant: every state event with a parseable state_key is returned, without
\* comparing the state_key with the sender.
get_rsvps_unvalidated(room_id) ==
    IF room_id \notin ClientRooms THEN [tag |-> "Err", error |-> "RoomNotFound"]
    ELSE [tag |-> "Ok", value |-> unvalidated_rsvps(room_events)]

\* Retrieval is not implemented: a known room yields the empty list.
get_rsvps(room_id) ==
    IF room_id \notin ClientRooms THEN Err("RoomNotFound")
    ELSE Ok(<<>>)

RsvpCountsDefault == [going |-> 0, interested |-> 0, not_going |-> 0, total_guests |-> 0]

RECURSIVE count_rsvps(_, _)
count_rsvps(rsvps, counts) ==
    IF rsvps = <<>> THEN counts
    ELSE LET rsvp == Head(rsvps)
             next == CASE rsvp.status = "Going" ->
                            [counts EXCEPT !.going = @ + 1,
                                           !.total_guests = @ + rsvp.guests]
                       [] rsvp.status = "Interested" ->
                            [counts EXCEPT !.interested = @ + 1]
                       [] rsvp.status = "NotGoing" ->
                            [counts EXCEPT !.not_going = @ + 1]
         IN  count_rsvps(Tail(rsvps), next)

get_rsvp_counts(room_id) ==
    LET rsvps == get_rsvps(room_id)
    IN  IF rsvps.tag = "Err" THEN rsvps
        ELSE Ok(count_rsvps(rsvps.value, RsvpCountsDefault))

\* A member's org.social.rsvp state event reaches the room.  The homeserver
\* does not require the state_key to be the sender.
ReceiveRsvpState ==
    \E sender \in Members, i \in 1..Len(RoomKeys), json \in RsvpContentJson :
        /\ roomState' = [roomState EXCEPT ![RoomKeys[i]] =
                            [sender |-> sender, status |-> deserialize(json).status,
                             guests |-> deserialize(json).guests]]
        /\ serviceCall' = [fn |-> "none"]
        /\ serviceResult' = NoResult
        /\ UNCHANGED <<clientUser, shareVars, validateVars, reactionVars, feedVars, socialVars>>

\* RsvpService::set_rsvp (and submit_rsvp, which forwards to it).  sent says
\* whether send_state_event_for_key succeeded.
SetRsvp ==
    \E room_id \in RoomIds, status \in RsvpStatus, guests \in GuestCounts,
       sent \in BOOLEAN :
        /\ serviceCall' = [fn |-> "set_rsvp", room_id |-> room_id]
        /\ IF clientUser = NoUser
           THEN serviceResult' = Err("NotLoggedIn") /\ UNCHANGED roomState
           ELSE IF room_id \notin ClientRooms
           THEN serviceResult' = Err("RoomNotFound") /\ UNCHANGED roomState
           ELSE IF ~sent
           THEN serviceResult' = Err("MatrixError") /\ UNCHANGED roomState
           ELSE /\ roomState' = [roomState EXCEPT ![clientUser] =
                                    [sender |-> clientUser, status |-> status,
                                     guests |-> guests]]
                /\ serviceResult' = Ok("$rsvp")
        /\ UNCHANGED <<clientUser, shareVars, validateVars, reactionVars, feedVars, socialVars>>

GetRsvps ==
    \E room_id \in RoomIds :
        /\ serviceCall' = [fn |-> "get_rsvps", room_id |-> room_id]
        /\ serviceResult' = get_rsvps(room_id)
        /\ UNCHANGED <<clientUser, roomState, shareVars, validateVars, reactionVars, feedVars, socialVars>>

GetRsvpCounts ==
    \E room_id \in RoomIds :
        /\ serviceCall' = [fn |-> "get_rsvp_counts", room_id |-> room_id]
        /\ serviceResult' = get_rsvp_counts(room_id)
        /\ UNCHANGED <<clientUser, roomState, shareVars, validateVars, reactionVars, feedVars, socialVars>>

ServiceInit ==
    /\ clientUser \in {NoUser, Alice}
    /\ roomState = [k \in {RoomKeys[i] : i \in 1..Len(RoomKeys)} |-> NoEvent]
    /\ serviceCall = [fn |-> "none"]
    /\ serviceResult = NoResult

ServiceNext ==
    \/ ReceiveRsvpState
    \/ SetRsvp
    \/ GetRsvps
    \/ GetRsvpCounts

ServiceIdle ==
    /\ clientUser = NoUser
    /\ roomState = [k \in {RoomKeys[i] : i \in 1..Len(RoomKeys)} |-> NoEvent]
    /\ serviceCall = [fn |-> "none"]
    /\ serviceResult = NoResult

(***************************************************************************)
(* reactions.rs: ReactionSummary                                           *)
(***************************************************************************)
\* Users and emojis, each in the order of its Ord implementation.
ReactionUsers == <<"@alice:example.org", "@bob:example.org">>
Emojis == <<"heart", "thumbsup">>
EventIds == {"$1:example.org", "$2:example.org"}

Range(seq) == {seq[i] : i \in 1..Len(seq)}

\* BTreeMap::insert, BTreeMap::remove and BTreeMap::get on a function whose
\* domain is the set of keys present.
EmptyMap == [k \in {} |-> 0]
MapInsert(map, key, value) ==
    [k \in DOMAIN map \cup {key} |-> IF k = key THEN value ELSE map[k]]
MapRemove(map, key) == [k \in DOMAIN map \ {key} |-> map[k]]
MapGetOr(map, key, default) == IF key \in DOMAIN map THEN map[key] ELSE default

saturating_sub(n, m) == IF n >= m THEN n - m ELSE 0

new_summary ==
    [counts |-> EmptyMap, users_by_emoji |-> EmptyMap, event_ids |-> EmptyMap, total |-> 0]

\* Mutant: the count and the total go up whether or not the user was new.
add_reaction_always_counts(self, emoji, user_id, event_id) ==
    [counts |-> MapInsert(self.counts, emoji, MapGetOr(self.counts, emoji, 0) + 1),
     users_by_emoji |-> MapInsert(self.users_by_emoji, emoji,
                           MapGetOr(self.users_by_emoji, emoji, {}) \cup {user_id}),
     event_ids |-> MapInsert(self.event_ids, <<user_id, emoji>>, event_id),
     total |-> self.total + 1]

\* Mutant: a reaction is taken as new when its event id is new for the pair.
add_reaction_dedup_by_event(self, emoji, user_id, event_id) ==
    IF MapGetOr(self.event_ids, <<user_id, emoji>>, "") # event_id
    THEN [counts |-> MapInsert(self.counts, emoji, MapGetOr(self.counts, emoji, 0) + 1),
          users_by_emoji |-> MapInsert(self.users_by_emoji, emoji,
                                MapGetOr(self.users_by_emoji, emoji, {}) \cup {user_id}),
          event_ids |-> MapInsert(self.event_ids, <<user_id, emoji>>, event_id),
          total |-> self.total + 1]
    ELSE self

\* Mutant: a repeated reaction replaces the event id stored for the pair.
add_reaction_last_id_wins(self, emoji, user_id, event_id) ==
    LET users == MapGetOr(self.users_by_emoji, emoji, {})
        with_user == [self EXCEPT !.users_by_emoji =
                          MapInsert(@, emoji, users \cup {user_id}),
                                  !.event_ids = MapInsert(@, <<user_id, emoji>>, event_id)]
    IN  IF user_id \notin users
        THEN [with_user EXCEPT
                 !.counts = MapInsert(@, emoji, MapGetOr(@, emoji, 0) + 1),
                 !.total = @ + 1]
        ELSE with_user

add_reaction(self, emoji, user_id, event_id) ==
    LET users == MapGetOr(self.users_by_emoji, emoji, {})    \* entry().or_default()
        inserted == user_id \notin users                      \* users.insert(..)
        with_user == [self EXCEPT !.users_by_emoji =
                          MapInsert(@, emoji, users \cup {user_id})]
    IN  IF inserted
        THEN [with_user EXCEPT
                 !.counts = MapInsert(@, emoji, MapGetOr(@, emoji, 0) + 1),
                 !.total = @ + 1,
                 !.event_ids = MapInsert(@, <<user_id, emoji>>, event_id)]
        ELSE with_user

None == [tag |-> "None"]
Some(value) == [tag |-> "Some", value |-> value]

\* Mutant: the count is decremented and never pruned at zero.
remove_reaction_keeps_zero(self, emoji, user_id) ==
    IF emoji \in DOMAIN self.users_by_emoji /\ user_id \in self.users_by_emoji[emoji]
    THEN LET users == self.users_by_emoji[emoji] \ {user_id}
             key == <<user_id, emoji>>
         IN  [summary |-> [counts |-> IF emoji \in DOMAIN self.counts
                                      THEN [self.counts EXCEPT ![emoji] = IF @ > 0 THEN @ - 1 ELSE 0]
                                      ELSE self.counts,
                           users_by_emoji |->
                               IF users = {}
                               THEN [e \in DOMAIN self.users_by_emoji \ {emoji} |->
                                        self.users_by_emoji[e]]
                               ELSE [self.users_by_emoji EXCEPT ![emoji] = users],
                           event_ids |-> [k \in DOMAIN self.event_ids \ {key} |->
                                             self.event_ids[k]],
                           total |-> IF self.total > 0 THEN self.total - 1 ELSE 0],
              result |-> IF key \in DOMAIN self.event_ids
                         THEN [tag |-> "Some", value |-> self.event_ids[key]]
                         ELSE [tag |-> "None"]]
    ELSE [summary |-> self, result |-> [tag |-> "None"]]

\* remove_reaction: the summary afterwards and the value returned.
remove_reaction(self, emoji, user_id) ==
    IF emoji \in DOMAIN self.users_by_emoji /\ user_id \in self.users_by_emoji[emoji]
    THEN LET users == self.users_by_emoji[emoji] \ {user_id}
             counts == IF emoji \in DOMAIN self.counts
                       THEN LET count == saturating_sub(self.counts[emoji], 1)
                            IN  IF count = 0 THEN MapRemove(self.counts, emoji)
                                ELSE MapInsert(self.counts, emoji, count)
                       ELSE self.counts
             key == <<user_id, emoji>>
         IN  [summary |-> [counts |-> counts,
                           users_by_emoji |->
                               IF users = {} THEN MapRemove(self.users_by_emoji, emoji)
                               ELSE MapInsert(self.users_by_emoji, emoji, users),
                           event_ids |-> MapRemove(self.event_ids, key),
                           total |-> saturating_sub(self.total, 1)],
              result |-> IF key \in DOMAIN self.event_ids
                         THEN Some(self.event_ids[key]) ELSE None]
    ELSE [summary |-> self, result |-> None]

count(self, emoji) == MapGetOr(self.counts, emoji, 0)
total(self) == self.total

has_user_reacted(self, emoji, user_id) ==
    emoji \in DOMAIN self.users_by_emoji /\ user_id \in self.users_by_emoji[emoji]

\* slice::sort_by: a stable sort.  less[i, j] says that the comparator orders
\* v[i] before v[j]; elements it does not order keep their relative position.
stable_sort_by(v, less) ==
    LET n == Len(v)
        rank(i) == Cardinality({j \in 1..n :
                       less[j, i] \/ (~less[i, j] /\ j < i)})
    IN  IF n = 0 THEN <<>>
        ELSE [p \in 1..n |-> v[CHOOSE i \in 1..n : rank(i) = p - 1]]

\* Vec::truncate
truncate(v, len) == IF len < Len(v) THEN SubSeq(v, 1, len) ELSE v

\* counts.iter(): the (emoji, count) entries in the key order of the BTreeMap.
counts_iter(self) ==
    LET present == SelectSeq(Emojis, LAMBDA emoji : emoji \in DOMAIN self.counts)
    IN  [i \in 1..Len(present) |-> <<present[i], self.counts[present[i]]>>]

\* The comparator |a, b| b.1.cmp(&a.1): the higher count first.
count_descending(v) == [i, j \in 1..Len(v) |-> v[i][2] > v[j][2]]

\* Mutant: the entries are cut to the limit before they are sorted.
top_reactions_truncate_first(self, limit) ==
    LET cut == truncate(counts_iter(self), limit)
    IN  stable_sort_by(cut, count_descending(cut))

top_reactions(self, limit) ==
    LET reactions == counts_iter(self)
        sorted == stable_sort_by(reactions, count_descending(reactions))
    IN  truncate(sorted, limit)

clear(self) ==
    [counts |-> EmptyMap, users_by_emoji |-> EmptyMap, event_ids |-> EmptyMap, total |-> 0]

\* The keys of an event_ids map in BTreeMap order: by user, then by emoji.
sorted_keys(event_ids) ==
    LET all == [i \in 1..(Len(ReactionUsers) * Len(Emojis)) |->
                   <<ReactionUsers[((i - 1) \div Len(Emojis)) + 1],
                     Emojis[((i - 1) % Len(Emojis)) + 1]>>]
    IN  SelectSeq(all, LAMBDA key : key \in DOMAIN event_ids)

RECURSIVE merge_keys(_, _, _)
merge_keys(self, keys, event_ids) ==
    IF keys = <<>> THEN self
    ELSE LET key == Head(keys)
         IN  merge_keys(add_reaction(self, key[2], key[1], event_ids[key]),
                        Tail(keys), event_ids)

\* Mutant: the other summary's users are merged and counted once but its
\* event ids are not carried over.
merge_without_event_ids(self, other_summary) ==
    LET emojis == DOMAIN self.users_by_emoji \cup DOMAIN other_summary.users_by_emoji
        users == [e \in emojis |->
                     (IF e \in DOMAIN self.users_by_emoji THEN self.users_by_emoji[e] ELSE {})
                     \cup (IF e \in DOMAIN other_summary.users_by_emoji
                           THEN other_summary.users_by_emoji[e] ELSE {})]
        sizes == [e \in emojis |-> Cardinality(users[e])]
    IN  [counts |-> sizes,
         users_by_emoji |-> users,
         event_ids |-> self.event_ids,
         total |-> merge_keys(self, sorted_keys(other_summary.event_ids),
                              other_summary.event_ids).total]

\* Mutant: the other summary's counts and total are added to this one's.
merge_sums_counts(self, other_summary) ==
    LET emojis == DOMAIN self.counts \cup DOMAIN other_summary.counts
        merged == merge_keys(self, sorted_keys(other_summary.event_ids),
                             other_summary.event_ids)
    IN  [merged EXCEPT
            !.counts = [e \in emojis |->
                           (IF e \in DOMAIN self.counts THEN self.counts[e] ELSE 0)
                           + (IF e \in DOMAIN other_summary.counts
                              THEN other_summary.counts[e] ELSE 0)],
            !.total = self.total + other_summary.total]

merge(self, other_summary) ==
    merge_keys(self, sorted_keys(other_summary.event_ids), other_summary.event_ids)

NotRemove == [tag |-> "none"]
NotTop == [tag |-> "none"]

AddReaction ==
    \E emoji \in Range(Emojis), user_id \in Range(ReactionUsers), event_id \in EventIds :
        /\ summary' = add_reaction(summary, emoji, user_id, event_id)
        /\ removed' = NotRemove
        /\ top' = NotTop
        /\ UNCHANGED <<other, otherAdded, shareVars, validateVars, serviceVars, feedVars, socialVars>>

RemoveReaction ==
    \E emoji \in Range(Emojis), user_id \in Range(ReactionUsers) :
        LET r == remove_reaction(summary, emoji, user_id)
        IN  /\ summary' = r.summary
            /\ removed' = r.result
            /\ top' = NotTop
            /\ UNCHANGED <<other, otherAdded, shareVars, validateVars, serviceVars, feedVars, socialVars>>

Merge ==
    /\ summary' = merge(summary, other)
    /\ removed' = NotRemove
    /\ top' = NotTop
    /\ UNCHANGED <<other, otherAdded, shareVars, validateVars, serviceVars, feedVars, socialVars>>

Clear ==
    /\ summary' = clear(summary)
    /\ removed' = NotRemove
    /\ top' = NotTop
    /\ UNCHANGED <<other, otherAdded, shareVars, validateVars, serviceVars, feedVars, socialVars>>

\* add_reaction on the second summary; at most MaxOtherAdds different calls.
OtherAddReaction ==
    \E emoji \in Range(Emojis), user_id \in Range(ReactionUsers), event_id \in EventIds :
        /\ Cardinality(otherAdded \cup {<<emoji, user_id, event_id>>}) <= MaxOtherAdds
        /\ other' = add_reaction(other, emoji, user_id, event_id)
        /\ otherAdded' = otherAdded \cup {<<emoji, user_id, event_id>>}
        /\ removed' = NotRemove
        /\ top' = NotTop
        /\ UNCHANGED <<summary, shareVars, validateVars, serviceVars, feedVars, socialVars>>

TopReactions ==
    \E limit \in 0..MaxTopLimit :
        /\ top' = [limit |-> limit, reactions |-> top_reactions(summary, limit)]
        /\ removed' = NotRemove
        /\ UNCHANGED <<summary, other, otherAdded, shareVars, validateVars, serviceVars, feedVars, socialVars>>

ReactionsInit ==
    /\ summary = new_summary
    /\ other = new_summary
    /\ otherAdded = {}
    /\ removed = NotRemove
    /\ top = NotTop

ReactionsNext ==
    \/ AddReaction
    \/ RemoveReaction
    \/ Merge
    \/ Clear
    \/ OtherAddReaction
    \/ TopReactions

(***************************************************************************)
(* newsfeed/feed_aggregator.rs: FeedAggregator                             *)
(***************************************************************************)
FeedSortOrder == {"Chronological", "Engagement", "GroupedByAuthor"}

\* Two rooms the client knows and one for which client.get_room is None.
RoomA == "!a:example.org"
RoomB == "!b:example.org"
RoomGone == "!gone:example.org"
FeedRoomIds == {RoomA, RoomB, RoomGone}
ClientFeedRooms == {RoomA, RoomB}

\* The event ids of the posts a fetch of each room can return, in timeline
\* order: at most one post of the first room, at most two of the second.
FeedEventIds ==
    [r \in ClientFeedRooms |->
        IF r = RoomA THEN <<"$a1:example.org">>
        ELSE <<"$b1:example.org", "$b2:example.org">>]

Timestamps == {1000, 2000}

\* Reactions and comment count of a post: engagement 3 or 10 in the first
\* room, 10 or 1 in the second.
EngagementForms ==
    [r \in ClientFeedRooms |->
        IF r = RoomA
        THEN {[reactions |-> [heart |-> 2], comment_count |-> 1],
              [reactions |-> [heart |-> 5, thumbsup |-> 3], comment_count |-> 2]}
        ELSE {[reactions |-> [heart |-> 5, thumbsup |-> 3], comment_count |-> 2],
              [reactions |-> EmptyMap, comment_count |-> 1]}]

\* The FeedItems a room can hold at position i of its timeline; the content
\* field plays no part in aggregation and is left out.
FeedItemsAt(room_id, i) ==
    {[room_id |-> room_id,
      event_id |-> FeedEventIds[room_id][i],
      sender |-> sender,
      origin_server_ts |-> ts,
      reactions |-> form.reactions,
      comment_count |-> form.comment_count] :
        sender \in Range(ReactionUsers), ts \in Timestamps, form \in EngagementForms[room_id]}

RECURSIVE TimelinesUpTo(_, _)
TimelinesUpTo(room_id, n) ==
    IF n = 0 THEN {<<>>}
    ELSE LET shorter == TimelinesUpTo(room_id, n - 1)
         IN  shorter \cup {Append(t, item) : t \in {u \in shorter : Len(u) = n - 1},
                                            item \in FeedItemsAt(room_id, n)}

TimelineFetchError(message) == [tag |-> "TimelineFetchError", message |-> message]

\* What the fetch of one room can come back with: its recent items, or a
\* failure naming the room.
FetchOutcomes(room_id) ==
    {Ok(t) : t \in TimelinesUpTo(room_id, Len(FeedEventIds[room_id]))}
        \cup {Err(TimelineFetchError(room_id))}

\* FeedAggregator::new
new_aggregator == [feed_rooms |-> <<>>, sort_order |-> "Chronological"]

\* Mutant: the room is pushed without looking for it in the list.
add_feed_room_unchecked(self, room_id) ==
    [self EXCEPT !.feed_rooms = Append(@, room_id)]

add_feed_room(self, room_id) ==
    IF ~contains(self.feed_rooms, room_id)
    THEN [self EXCEPT !.feed_rooms = Append(@, room_id)]
    ELSE self

remove_feed_room(self, room_id) ==
    [self EXCEPT !.feed_rooms = SelectSeq(@, LAMBDA id : id # room_id)]   \* retain

contains_room(self, room_id) ==
    \E i \in 1..Len(self.feed_rooms) : self.feed_rooms[i] = room_id

room_count(self) == Len(self.feed_rooms)

sort_order(self) == self.sort_order

set_sort_order(self, order) == [self EXCEPT !.sort_order = order]

\* reactions.values().sum()
RECURSIVE values_sum(_, _)
values_sum(map, keys) ==
    IF keys = {} THEN 0
    ELSE LET k == CHOOSE x \in keys : TRUE
         IN  map[k] + values_sum(map, keys \ {k})

\* FeedItem::engagement
engagement(item) == values_sum(item.reactions, DOMAIN item.reactions) + item.comment_count

\* Ord of OwnedUserId on the modelled ids.
user_id_lt(a, b) ==
    \E i, j \in 1..Len(ReactionUsers) :
        ReactionUsers[i] = a /\ ReactionUsers[j] = b /\ i < j

\* The three comparators of sort_items, each as the pairs of positions it
\* orders the first before the second.
chronological(items) ==
    [i, j \in 1..Len(items) |-> items[j].origin_server_ts < items[i].origin_server_ts]

by_engagement(items) ==
    [i, j \in 1..Len(items) |-> engagement(items[j]) < engagement(items[i])]

grouped_by_author(items) ==
    [i, j \in 1..Len(items) |->
        \/ user_id_lt(items[i].sender, items[j].sender)
        \/ /\ items[i].sender = items[j].sender
           /\ items[j].origin_server_ts < items[i].origin_server_ts]

\* Mutant: Engagement compares a with b, least engaging first.
sort_items_engagement_ascending(self, items) ==
    IF self.sort_order = "Chronological"
    THEN stable_sort_by(items, chronological(items))
    ELSE IF self.sort_order = "Engagement"
    THEN stable_sort_by(items, [i, j \in 1..Len(items) |->
                                   engagement(items[i]) < engagement(items[j])])
    ELSE stable_sort_by(items, grouped_by_author(items))

\* Mutant: GroupedByAuthor compares the senders only.
sort_items_by_sender_only(self, items) ==
    IF self.sort_order = "Chronological"
    THEN stable_sort_by(items, chronological(items))
    ELSE IF self.sort_order = "Engagement"
    THEN stable_sort_by(items, by_engagement(items))
    ELSE stable_sort_by(items, [i, j \in 1..Len(items) |->
                                   user_id_lt(items[i].sender, items[j].sender)])

sort_items(self, items) ==
    IF self.sort_order = "Chronological"
    THEN stable_sort_by(items, chronological(items))
    ELSE IF self.sort_order = "Engagement"
    THEN stable_sort_by(items, by_engagement(items))
    ELSE stable_sort_by(items, grouped_by_author(items))

\* client.get_room: whether the client knows the room.
get_room(room_id) == room_id \in ClientFeedRooms

\* The fetch of one room's recent items, done by the room-data collaborator.
fetch_room_items(room_id, limit) == timeline[room_id]

\* Mutant: a failed fetch is skipped and the loop goes on with the next room.
RECURSIVE collect_items_skip_failed(_, _, _, _)
collect_items_skip_failed(self, limit, i, all_items) ==
    IF i > Len(self.feed_rooms) THEN Ok(all_items)
    ELSE IF get_room(self.feed_rooms[i])
         THEN LET items == fetch_room_items(self.feed_rooms[i], limit)
              IN  IF items.tag = "Err"
                  THEN collect_items_skip_failed(self, limit, i + 1, all_items)
                  ELSE collect_items_skip_failed(self, limit, i + 1,
                                                 all_items \o items.value)
         ELSE collect_items_skip_failed(self, limit, i + 1, all_items)

\* The for loop of get_aggregated_feed from position i on: a room the client
\* does not know is skipped, a failed fetch ends the call with its error.
RECURSIVE collect_items(_, _, _, _)
collect_items(self, limit, i, all_items) ==
    IF i > Len(self.feed_rooms) THEN Ok(all_items)
    ELSE IF get_room(self.feed_rooms[i])
         THEN LET items == fetch_room_items(self.feed_rooms[i], limit)
              IN  IF items.tag = "Err" THEN items
                  ELSE collect_items(self, limit, i + 1, all_items \o items.value)
         ELSE collect_items(self, limit, i + 1, all_items)

\* The calls of fetch_room_items the same loop makes from position i on, by
\* room: one for each room the client knows, up to the first that fails.
RECURSIVE fetch_calls(_, _, _)
fetch_calls(self, limit, i) ==
    IF i > Len(self.feed_rooms) THEN <<>>
    ELSE IF get_room(self.feed_rooms[i])
         THEN IF fetch_room_items(self.feed_rooms[i], limit).tag = "Err"
              THEN <<self.feed_rooms[i]>>
              ELSE <<self.feed_rooms[i]>> \o fetch_calls(self, limit, i + 1)
         ELSE fetch_calls(self, limit, i + 1)

\* Mutant: the collected items are cut to the limit before they are sorted.
get_aggregated_feed_truncate_first(self, limit) ==
    LET collected == collect_items(self, limit, 1, <<>>)
    IN  IF collected.tag = "Err" THEN collected
        ELSE Ok(sort_items(self, truncate(collected.value, limit)))

get_aggregated_feed(self, limit) ==
    LET collected == collect_items(self, limit, 1, <<>>)
    IN  IF collected.tag = "Err" THEN collected
        ELSE Ok(truncate(sort_items(self, collected.value), limit))

AddFeedRoom ==
    \E room_id \in FeedRoomIds :
        /\ aggregator' = add_feed_room(aggregator, room_id)
        /\ lastRoomCall' = [lastRoomCall EXCEPT ![room_id] = "add"]
        /\ feedCall' = [fn |-> "add_feed_room", room_id |-> room_id]
        /\ feedResult' = NoResult
        /\ UNCHANGED <<timeline, fetches, shareVars, validateVars, serviceVars, reactionVars, socialVars>>

RemoveFeedRoom ==
    \E room_id \in FeedRoomIds :
        /\ aggregator' = remove_feed_room(aggregator, room_id)
        /\ lastRoomCall' = [lastRoomCall EXCEPT ![room_id] = "remove"]
        /\ feedCall' = [fn |-> "remove_feed_room", room_id |-> room_id]
        /\ feedResult' = NoResult
        /\ UNCHANGED <<timeline, fetches, shareVars, validateVars, serviceVars, reactionVars, socialVars>>

ContainsRoom ==
    \E room_id \in FeedRoomIds :
        /\ feedCall' = [fn |-> "contains_room", room_id |-> room_id]
        /\ feedResult' = [tag |-> "bool", value |-> contains_room(aggregator, room_id)]
        /\ UNCHANGED <<aggregator, timeline, lastRoomCall, fetches,
                       shareVars, validateVars, serviceVars, reactionVars, socialVars>>

RoomCount ==
    /\ feedCall' = [fn |-> "room_count"]
    /\ feedResult' = [tag |-> "usize", value |-> room_count(aggregator)]
    /\ UNCHANGED <<aggregator, timeline, lastRoomCall, fetches,
                   shareVars, validateVars, serviceVars, reactionVars, socialVars>>

SetSortOrder ==
    \E order \in FeedSortOrder :
        /\ aggregator' = set_sort_order(aggregator, order)
        /\ feedCall' = [fn |-> "set_sort_order", order |-> order]
        /\ feedResult' = NoResult
        /\ UNCHANGED <<timeline, lastRoomCall, fetches,
                       shareVars, validateVars, serviceVars, reactionVars, socialVars>>

\* One call in each configuration of aggregator and timelines.
GetAggregatedFeed ==
    \E limit \in 0..MaxFeedLimit :
        /\ feedCall.fn # "get_aggregated_feed"
        /\ feedCall' = [fn |-> "get_aggregated_feed", limit |-> limit]
        /\ feedResult' = get_aggregated_feed(aggregator, limit)
        /\ fetches' = fetch_calls(aggregator, limit, 1)
        /\ UNCHANGED <<aggregator, timeline, lastRoomCall,
                       shareVars, validateVars, serviceVars, reactionVars, socialVars>>

\* The lists add_feed_room can build from the rooms: no room twice.
TrackedLists ==
    {rooms \in SeqsUpTo(FeedRoomIds, Cardinality(FeedRoomIds)) :
        \A i, j \in 1..Len(rooms) : i # j => rooms[i] # rooms[j]}

\* A new aggregator; every fetch finds an empty timeline.
FeedIdle ==
    /\ aggregator = new_aggregator
    /\ timeline = [r \in ClientFeedRooms |-> Ok(<<>>)]
    /\ feedCall = [fn |-> "none"]
    /\ feedResult = NoResult
    /\ lastRoomCall = [r \in FeedRoomIds |-> "none"]
    /\ fetches = <<>>

\* An aggregator after its rooms were added and its order set, in front of
\* rooms with any timelines.
FeedInit ==
    /\ aggregator \in [feed_rooms : TrackedLists, sort_order : FeedSortOrder]
    /\ timeline \in {[r \in ClientFeedRooms |-> IF r = RoomA THEN a ELSE b] :
                         a \in FetchOutcomes(RoomA), b \in FetchOutcomes(RoomB)}
    /\ feedCall = [fn |-> "none"]
    /\ feedResult = NoResult
    /\ lastRoomCall = [r \in FeedRoomIds |->
                          IF contains(aggregator.feed_rooms, r) THEN "add" ELSE "none"]
    /\ fetches = <<>>

FeedRoomsNext ==
    \/ AddFeedRoom
    \/ RemoveFeedRoom
    \/ ContainsRoom
    \/ RoomCount
    \/ SetSortOrder

FeedNext == GetAggregatedFeed

(***************************************************************************)
(* newsfeed/feed_filter.rs: ContentFilter and FeedFilterSettings           *)
(***************************************************************************)
ContentFilter == {"All", "TextOnly", "MediaOnly", "LinksOnly"}
PostContentKinds == {"Text", "Image", "Video", "Link"}

\* ContentFilter::matches
content_matches(self, item) ==
    CASE self = "All" -> TRUE
      [] self = "TextOnly" -> item.content = "Text"
      [] self = "MediaOnly" -> item.content \in {"Image", "Video"}
      [] self = "LinksOnly" -> item.content = "Link"

\* FeedFilterSettings::new, the derived Default
new_settings ==
    [content_filter |-> "All", authors |-> {}, muted_authors |-> {},
     min_engagement |-> 0, max_age_seconds |-> 0]

with_content_filter(self, filter) == [self EXCEPT !.content_filter = filter]
with_authors(self, authors) == [self EXCEPT !.authors = authors]
add_author(self, author) == [self EXCEPT !.authors = @ \cup {author}]
with_muted_authors(self, authors) == [self EXCEPT !.muted_authors = authors]
mute_author(self, author) == [self EXCEPT !.muted_authors = @ \cup {author}]
unmute_author(self, author) == [self EXCEPT !.muted_authors = {a \in @ : a # author}]
with_min_engagement(self, min) == [self EXCEPT !.min_engagement = min]
with_max_age(self, seconds) == [self EXCEPT !.max_age_seconds = seconds]

\* FeedFilterSettings::matches: content type, author list, mute list and
\* minimum engagement, in this order; max_age_seconds is not read.
matches(self, item) ==
    IF ~content_matches(self.content_filter, item) THEN FALSE
    ELSE IF self.authors # {} /\ item.sender \notin self.authors THEN FALSE
    ELSE IF item.sender \in self.muted_authors THEN FALSE
    ELSE IF self.min_engagement > 0 /\ engagement(item) < self.min_engagement THEN FALSE
    ELSE TRUE

\* Mutant: the iterator stops at the first item that does not match.
RECURSIVE apply_take_while(_, _)
apply_take_while(self, items) ==
    IF items = <<>> \/ ~matches(self, Head(items)) THEN <<>>
    ELSE <<Head(items)>> \o apply_take_while(self, Tail(items))

\* FeedFilterSettings::apply: into_iter().filter(matches).collect()
RECURSIVE apply(_, _)
apply(self, items) ==
    IF items = <<>> THEN <<>>
    ELSE IF matches(self, Head(items))
         THEN <<Head(items)>> \o apply(self, Tail(items))
         ELSE apply(self, Tail(items))

has_active_filters(self) ==
    \/ self.content_filter # "All"
    \/ self.authors # {}
    \/ self.muted_authors # {}
    \/ self.min_engagement > 0
    \/ self.max_age_seconds > 0

reset(self) == new_settings

\* Four posts of two authors: a fresh text post with engagement 10, a fresh
\* image without engagement, an old link with engagement 2 and an old video
\* with engagement 10.
FilterItems ==
    {[event_id |-> "$text:example.org", sender |-> "@alice:example.org",
      origin_server_ts |-> 5000, content |-> "Text",
      reactions |-> [heart |-> 5, thumbsup |-> 3], comment_count |-> 2],
     [event_id |-> "$image:example.org", sender |-> "@bob:example.org",
      origin_server_ts |-> 5000, content |-> "Image",
      reactions |-> EmptyMap, comment_count |-> 0],
     [event_id |-> "$link:example.org", sender |-> "@alice:example.org",
      origin_server_ts |-> 1000, content |-> "Link",
      reactions |-> [heart |-> 2], comment_count |-> 0],
     [event_id |-> "$video:example.org", sender |-> "@bob:example.org",
      origin_server_ts |-> 1000, content |-> "Video",
      reactions |-> [heart |-> 5, thumbsup |-> 3], comment_count |-> 2]}

\* The lists of up to MaxFilterItems different posts.
FilterItemLists ==
    {items \in SeqsUpTo(FilterItems, MaxFilterItems) :
        \A i, j \in 1..Len(items) : i # j => items[i] # items[j]}

EngagementThresholds == {0, 5}     \* min_engagement: u32
AgeLimits == {0, 2}                \* max_age_seconds: u64
FilterAuthors == Range(ReactionUsers)

WithContentFilter ==
    \E filter \in ContentFilter :
        /\ settings' = with_content_filter(settings, filter)
        /\ filterResult' = NoResult
        /\ UNCHANGED <<feedItems, now, coreVars, postVars, profileVars, friendsVars, eventVars>>

WithAuthors ==
    \E authors \in SUBSET FilterAuthors :
        /\ settings' = with_authors(settings, authors)
        /\ filterResult' = NoResult
        /\ UNCHANGED <<feedItems, now, coreVars, postVars, profileVars, friendsVars, eventVars>>

AddAuthor ==
    \E author \in FilterAuthors :
        /\ settings' = add_author(settings, author)
        /\ filterResult' = NoResult
        /\ UNCHANGED <<feedItems, now, coreVars, postVars, profileVars, friendsVars, eventVars>>

WithMutedAuthors ==
    \E authors \in SUBSET FilterAuthors :
        /\ settings' = with_muted_authors(settings, authors)
        /\ filterResult' = NoResult
        /\ UNCHANGED <<feedItems, now, coreVars, postVars, profileVars, friendsVars, eventVars>>

MuteAuthor ==
    \E author \in FilterAuthors :
        /\ settings' = mute_author(settings, author)
        /\ filterResult' = NoResult
        /\ UNCHANGED <<feedItems, now, coreVars, postVars, profileVars, friendsVars, eventVars>>

UnmuteAuthor ==
    \E author \in FilterAuthors :
        /\ settings' = unmute_author(settings, author)
        /\ filterResult' = NoResult
        /\ UNCHANGED <<feedItems, now, coreVars, postVars, profileVars, friendsVars, eventVars>>

WithMinEngagement ==
    \E min \in EngagementThresholds :
        /\ settings' = with_min_engagement(settings, min)
        /\ filterResult' = NoResult
        /\ UNCHANGED <<feedItems, now, coreVars, postVars, profileVars, friendsVars, eventVars>>

WithMaxAge ==
    \E seconds \in AgeLimits :
        /\ settings' = with_max_age(settings, seconds)
        /\ filterResult' = NoResult
        /\ UNCHANGED <<feedItems, now, coreVars, postVars, profileVars, friendsVars, eventVars>>

Reset ==
    /\ settings' = reset(settings)
    /\ filterResult' = NoResult
    /\ UNCHANGED <<feedItems, now, coreVars, postVars, profileVars, friendsVars, eventVars>>

Apply ==
    /\ filterResult' = [tag |-> "apply", value |-> apply(settings, feedItems)]
    /\ UNCHANGED <<settings, feedItems, now, coreVars, postVars, profileVars, friendsVars, eventVars>>

HasActiveFilters ==
    /\ filterResult' = [tag |-> "has_active_filters", value |-> has_active_filters(settings)]
    /\ UNCHANGED <<settings, feedItems, now, coreVars, postVars, profileVars, friendsVars, eventVars>>

\* Default settings and nothing to filter.
FilterIdle ==
    /\ settings = new_settings
    /\ feedItems = <<>>
    /\ now = 0
    /\ filterResult = NoResult

\* Default settings in front of any list of posts, six seconds after the epoch.
FilterInit ==
    /\ settings = new_settings
    /\ feedItems \in FilterItemLists
    /\ now = 6000
    /\ filterResult = NoResult

FilterNext ==
    \/ WithContentFilter
    \/ WithAuthors
    \/ AddAuthor
    \/ WithMutedAuthors
    \/ MuteAuthor
    \/ UnmuteAuthor
    \/ WithMinEngagement
    \/ WithMaxAge
    \/ Reset
    \/ Apply
    \/ HasActiveFilters

(***************************************************************************)
(* post.rs: PostMetadata                                                   *)
(***************************************************************************)
\* Server timestamps of a post and of its edits, in milliseconds.
OriginTimestamps == {1000, 2000}
EditTimestamps == {1000, 2000, 3000}

\* PostMetadata::new
new_metadata(event_id, room_id, sender, origin_server_ts) ==
    [event_id |-> event_id, room_id |-> room_id, sender |-> sender,
     origin_server_ts |-> origin_server_ts,
     edit_timestamps |-> <<>>, is_edited |-> FALSE]

\* PostMetadata::add_edit: edit_timestamps.insert(0, timestamp)
add_edit(self, timestamp) ==
    [self EXCEPT !.edit_timestamps = <<timestamp>> \o @, !.is_edited = TRUE]

\* PostMetadata::last_modified: the first edit timestamp, or the original one
last_modified(self) ==
    IF self.edit_timestamps # <<>> THEN self.edit_timestamps[1]
    ELSE self.origin_server_ts

\* At most MaxEdits edits of a post are followed.
AddEdit ==
    \E timestamp \in EditTimestamps :
        /\ Len(metadata.edit_timestamps) < MaxEdits
        /\ metadata' = add_edit(metadata, timestamp)
        /\ postResult' = NoResult
        /\ UNCHANGED <<coreVars, filterVars, profileVars, friendsVars, eventVars>>

LastModified ==
    /\ postResult' = [tag |-> "last_modified", value |-> last_modified(metadata)]
    /\ UNCHANGED <<metadata, coreVars, filterVars, profileVars, friendsVars, eventVars>>

PostIdle ==
    /\ metadata = new_metadata("$post:example.org", RoomA, "@alice:example.org", 0)
    /\ postResult = NoResult

PostInit ==
    /\ metadata \in {new_metadata("$post:example.org", RoomA, "@alice:example.org", ts) :
                        ts \in OriginTimestamps}
    /\ postResult = NoResult

PostNext ==
    \/ AddEdit
    \/ LastModified

(***************************************************************************)
(* profile_room.rs: ProfileRoomService                                     *)
(***************************************************************************)
\* The user the client can be logged in as, by the parts of the user id.
ProfileUser == [localpart |-> "alice", server_name |-> "example.org"]

\* A profile room made by other means than this service, under the alias.
ExistingProfileRoom == <<"!", 1, ":elsewhere.org">>

\* The id the homeserver gives to the n-th room it creates.
fresh_room_id(n) == <<"!", n, ":example.org">>

\* ProfileRoomConfig::default
alias_prefix == "profile_"

\* profile_alias_for_user: #profile_{localpart}:{server}.  The alias built
\* from a valid user id is a valid alias, so InvalidAlias is not returned.
profile_alias_for_user(user_id) ==
    <<"#", alias_prefix, user_id.localpart, ":", user_id.server_name>>

\* The CreateRoomRequest of create_profile_room: a name and a topic; the
\* other fields, room_alias_name among them, keep their defaults.
profile_room_request(user_id) ==
    [name |-> Some(<<user_id.localpart, "'s Profile">>),
     topic |-> Some("Social profile room"),
     room_alias_name |-> None]

\* The homeserver's create_room: a new room, entered in the directory when
\* the request asks for an alias.
server_create_room(dir, rooms, request, server_name) ==
    LET room_id == fresh_room_id(Len(rooms) + 1)
    IN  [directory |-> IF request.room_alias_name = None THEN dir
                       ELSE MapInsert(dir, <<"#", request.room_alias_name.value,
                                             ":", server_name>>, room_id),
         rooms |-> Append(rooms, [room_id |-> room_id, name |-> request.name,
                                  state |-> <<>>]),
         room_id |-> room_id]

\* What the homeserver and the client store answer during one call: whether
\* each alias lookup fails for another reason than a missing alias, whether
\* create_room succeeds, whether client.get_room finds the new room, and how
\* many of the three state events are sent before one fails.
ProfileOutcomes ==
    [lookup_fails : BOOLEAN, second_lookup_fails : BOOLEAN, create_room_ok : BOOLEAN,
     get_room_found : BOOLEAN, sent : 0..3]

InitialStateEvents == <<"m.room.join_rules", "m.room.history_visibility", "org.social.profile">>

\* find_profile_room: Some(room) when the alias resolves, None when the
\* server answers not found, an error otherwise.
find_profile_room(dir, user_id, fails) ==
    LET alias == profile_alias_for_user(user_id)
    IN  IF fails THEN Err("MatrixError")
        ELSE IF alias \in DOMAIN dir THEN Ok(Some(dir[alias]))
        ELSE Ok(None)

AlreadyExists(room_id) == [tag |-> "AlreadyExists", room_id |-> room_id]

\* create_profile_room: the directory and rooms it leaves, and its result.
create_profile_room(client, dir, rooms, fails, io) ==
    IF client = None THEN [directory |-> dir, rooms |-> rooms, result |-> Err("NotLoggedIn")]
    ELSE LET user_id == client.value
             found == find_profile_room(dir, user_id, fails)
             made == server_create_room(dir, rooms, profile_room_request(user_id),
                                        user_id.server_name)
             n == Len(made.rooms)
             sent == IF io.get_room_found THEN io.sent ELSE 0
             with_state == [made.rooms EXCEPT ![n].state =
                               SubSeq(InitialStateEvents, 1, sent)]
         IN  IF found.tag = "Err"
             THEN [directory |-> dir, rooms |-> rooms, result |-> found]
             ELSE IF found.value # None
             THEN [directory |-> dir, rooms |-> rooms,
                   result |-> Err(AlreadyExists(found.value.value))]
             ELSE IF ~io.create_room_ok
             THEN [directory |-> dir, rooms |-> rooms, result |-> Err("MatrixError")]
             ELSE IF io.get_room_found /\ io.sent < 3
             THEN [directory |-> made.directory, rooms |-> with_state,
                   result |-> Err("MatrixError")]
             ELSE [directory |-> made.directory, rooms |-> with_state,
                   result |-> Ok(made.room_id)]

\* get_or_create_profile_room: the room found, or what create_profile_room
\* does, which looks the alias up a second time.
get_or_create_profile_room(client, dir, rooms, io) ==
    IF client = None THEN [directory |-> dir, rooms |-> rooms, result |-> Err("NotLoggedIn")]
    ELSE LET found == find_profile_room(dir, client.value, io.lookup_fails)
         IN  IF found.tag = "Err"
             THEN [directory |-> dir, rooms |-> rooms, result |-> found]
             ELSE IF found.value # None
             THEN [directory |-> dir, rooms |-> rooms, result |-> Ok(found.value.value)]
             ELSE create_profile_room(client, dir, rooms, io.second_lookup_fails, io)

\* The rooms create_profile_room has returned, with the one it returns now.
created_after(created, result) ==
    IF result.tag = "Ok" THEN Append(created, result.value) ELSE created

CreateProfileRoom ==
    \E io \in ProfileOutcomes :
        LET r == create_profile_room(profileClient, directory, profileRooms,
                                     io.lookup_fails, io)
        IN  /\ Len(profileRooms) < MaxProfileRooms
            /\ directory' = r.directory
            /\ profileRooms' = r.rooms
            /\ profileCreated' = created_after(profileCreated, r.result)
            /\ profileCall' = [fn |-> "create_profile_room"]
            /\ profileResult' = r.result
            /\ UNCHANGED <<profileClient, coreVars, filterVars, postVars, friendsVars, eventVars>>

GetOrCreateProfileRoom ==
    \E io \in ProfileOutcomes :
        LET r == get_or_create_profile_room(profileClient, directory, profileRooms, io)
        IN  /\ Len(profileRooms) < MaxProfileRooms
            /\ directory' = r.directory
            /\ profileRooms' = r.rooms
            /\ profileCreated' =
                   IF Len(r.rooms) > Len(profileRooms)
                   THEN created_after(profileCreated, r.result)
                   ELSE profileCreated
            /\ profileCall' = [fn |-> "get_or_create_profile_room"]
            /\ profileResult' = r.result
            /\ UNCHANGED <<profileClient, coreVars, filterVars, postVars, friendsVars, eventVars>>

FindProfileRoom ==
    \E fails \in BOOLEAN :
        /\ profileCall' = [fn |-> "find_profile_room"]
        /\ profileResult' = find_profile_room(directory, ProfileUser, fails)
        /\ UNCHANGED <<profileClient, directory, profileRooms, profileCreated,
                       coreVars, filterVars, postVars, friendsVars, eventVars>>

\* Nobody logged in, no profile room anywhere.
ProfileIdle ==
    /\ profileClient = None
    /\ directory = EmptyMap
    /\ profileRooms = <<>>
    /\ profileCreated = <<>>
    /\ profileCall = [fn |-> "none"]
    /\ profileResult = NoResult

\* A client logged in or not; the user's profile alias is free or taken by a
\* room made elsewhere.
ProfileInit ==
    /\ profileClient \in {None, Some(ProfileUser)}
    /\ directory \in {EmptyMap,
                      MapInsert(EmptyMap, profile_alias_for_user(ProfileUser),
                                ExistingProfileRoom)}
    /\ profileRooms = <<>>
    /\ profileCreated = <<>>
    /\ profileCall = [fn |-> "none"]
    /\ profileResult = NoResult

ProfileNext ==
    \/ CreateProfileRoom
    \/ GetOrCreateProfileRoom
    \/ FindProfileRoom

(***************************************************************************)
(* friends/friends_space.rs: FriendsSpaceService                           *)
(***************************************************************************)
\* The name find_friends_space looks for and create_friends_space gives.
friends_space_name(user_id) == <<user_id.localpart, "'s Friends">>

\* A friends space made by another client of the user, and a plain room
\* that happens to carry the same name.
ExistingSpace ==
    [room_id |-> <<"!", 1, ":elsewhere.org">>,
     name |-> Some(friends_space_name(ProfileUser)), is_space |-> TRUE,
     state |-> <<>>]
NamesakeRoom ==
    [room_id |-> <<"!", 2, ":elsewhere.org">>,
     name |-> Some(friends_space_name(ProfileUser)), is_space |-> FALSE,
     state |-> <<>>]

\* The CreateRoomRequest of create_friends_space: a name and a topic; the
\* creation content, with the room type, keeps its default.
friends_space_request(user_id) ==
    [name |-> Some(friends_space_name(user_id)),
     topic |-> Some("Friends space for organizing connections"),
     room_type |-> None]

\* The homeserver's create_room as the client sees it afterwards: a joined
\* room that is a space when the request gives the room type m.space.
joined_after_create(rooms, request) ==
    Append(rooms,
           [room_id |-> fresh_room_id(Len(rooms) + 1),
            name |-> request.name,
            is_space |-> request.room_type = Some("m.space"),
            state |-> <<>>])

\* The for loop of find_friends_space from position i on.
RECURSIVE find_in_joined(_, _, _)
find_in_joined(rooms, expected_name, i) ==
    IF i > Len(rooms) THEN None
    ELSE IF ~rooms[i].is_space THEN find_in_joined(rooms, expected_name, i + 1)
    ELSE IF rooms[i].name = Some(expected_name) THEN Some(rooms[i].room_id)
    ELSE find_in_joined(rooms, expected_name, i + 1)

find_friends_space(client, rooms) ==
    IF client = None THEN Err("NotLoggedIn")
    ELSE Ok(find_in_joined(rooms, friends_space_name(client.value), 1))

\* What the homeserver and the client store answer during one call: whether
\* create_room succeeds, whether client.get_room finds the new room, and how
\* many of the two state events are sent before one fails.
FriendsOutcomes == [create_room_ok : BOOLEAN, get_room_found : BOOLEAN, sent : 0..2]

SpaceStateEvents == <<"m.room.join_rules", "m.room.history_visibility">>

\* create_friends_space: the joined rooms it leaves, and its result.
create_friends_space(client, rooms, io) ==
    IF client = None THEN [rooms |-> rooms, result |-> Err("NotLoggedIn")]
    ELSE IF ~io.create_room_ok THEN [rooms |-> rooms, result |-> Err("MatrixError")]
    ELSE LET made == joined_after_create(rooms, friends_space_request(client.value))
             n == Len(made)
             sent == IF io.get_room_found THEN io.sent ELSE 0
             with_state == [made EXCEPT ![n].state = SubSeq(SpaceStateEvents, 1, sent)]
         IN  IF io.get_room_found /\ io.sent < 2
             THEN [rooms |-> with_state, result |-> Err("MatrixError")]
             ELSE [rooms |-> with_state, result |-> Ok(made[n].room_id)]

\* get_or_create_friends_space: the cache and joined rooms it leaves, its
\* result, and whether it searched and whether it called create_room.
get_or_create_friends_space(cache, client, rooms, io) ==
    IF cache # None
    THEN [space_id |-> cache, rooms |-> rooms, result |-> Ok(cache.value),
          searched |-> FALSE, created |-> FALSE]
    ELSE LET found == find_friends_space(client, rooms)
             made == create_friends_space(client, rooms, io)
         IN  IF found.tag = "Err"
             THEN [space_id |-> cache, rooms |-> rooms, result |-> found,
                   searched |-> TRUE, created |-> FALSE]
             ELSE IF found.value # None
             THEN [space_id |-> found.value, rooms |-> rooms,
                   result |-> Ok(found.value.value),
                   searched |-> TRUE, created |-> FALSE]
             ELSE [space_id |-> IF made.result.tag = "Ok"
                                THEN Some(made.result.value) ELSE cache,
                   rooms |-> made.rooms, result |-> made.result,
                   searched |-> TRUE, created |-> Len(made.rooms) > Len(rooms)]

cached_space_id(cache) == cache
clear_cache(cache) == None

\* The rooms among the joined ones that create_friends_space made.
CreatedSpaces ==
    SelectSeq(joinedRooms, LAMBDA room : room.room_id \notin {ExistingSpace.room_id,
                                                              NamesakeRoom.room_id})

GetOrCreateFriendsSpace ==
    \E io \in FriendsOutcomes :
        LET r == get_or_create_friends_space(space_id, friendsClient, joinedRooms, io)
        IN  /\ Len(CreatedSpaces) < MaxFriendsRooms
            /\ space_id' = r.space_id
            /\ joinedRooms' = r.rooms
            /\ friendsCall' = [fn |-> "get_or_create_friends_space",
                               cached |-> space_id,
                               searched |-> r.searched, created |-> r.created]
            /\ friendsResult' = r.result
            /\ UNCHANGED <<friendsClient, coreVars, filterVars, postVars, profileVars, eventVars>>

CachedSpaceId ==
    /\ friendsCall' = [fn |-> "cached_space_id"]
    /\ friendsResult' = cached_space_id(space_id)
    /\ UNCHANGED <<friendsClient, joinedRooms, space_id,
                   coreVars, filterVars, postVars, profileVars, eventVars>>

ClearCache ==
    /\ space_id' = clear_cache(space_id)
    /\ friendsCall' = [fn |-> "clear_cache"]
    /\ friendsResult' = NoResult
    /\ UNCHANGED <<friendsClient, joinedRooms, coreVars, filterVars, postVars, profileVars, eventVars>>

\* Nobody logged in, no room joined.
FriendsIdle ==
    /\ friendsClient = None
    /\ joinedRooms = <<>>
    /\ space_id = None
    /\ friendsCall = [fn |-> "none"]
    /\ friendsResult = NoResult

\* FriendsSpaceService::new for a client logged in or not, which has joined
\* no room, a friends space made elsewhere, or a plain room with that name.
FriendsInit ==
    /\ friendsClient \in {None, Some(ProfileUser)}
    /\ joinedRooms \in {<<>>, <<ExistingSpace>>, <<NamesakeRoom>>,
                        <<NamesakeRoom, ExistingSpace>>}
    /\ space_id = None
    /\ friendsCall = [fn |-> "none"]
    /\ friendsResult = NoResult

FriendsNext ==
    \/ GetOrCreateFriendsSpace
    \/ CachedSpaceId
    \/ ClearCache

(***************************************************************************)
(* events/event_room.rs: EventRole, event_room_power_levels                *)
(***************************************************************************)
EventRole == {"Creator", "CoHost", "Guest"}

\* EventRole::power_level_i64
power_level_i64 == [Creator |-> 100, CoHost |-> 50, Guest |-> 0]

\* event_room_power_levels: the RoomPowerLevelChanges it returns.  The
\* fields it does not set stay None; the changes carry no per-event-type
\* levels.
event_room_power_levels(guests_can_invite) ==
    [state_default |-> Some(power_level_i64["CoHost"]),
     events_default |-> Some(power_level_i64["Guest"]),
     invite |-> IF guests_can_invite THEN Some(power_level_i64["Guest"])
                ELSE Some(power_level_i64["CoHost"]),
     kick |-> Some(power_level_i64["CoHost"]),
     ban |-> Some(power_level_i64["CoHost"]),
     redact |-> Some(power_level_i64["CoHost"]),
     users_default |-> None]

PowerLevelFields ==
    {"state_default", "events_default", "invite", "kick", "ban", "redact", "users_default"}

\* The host who creates the event and two members who join it.
Host == "@host:example.org"
EventMembers == {"@carol:example.org", "@dave:example.org"}

\* The m.room.power_levels of a room as the homeserver creates it: the
\* creator at 100, everybody else at users_default, and per-event-type levels
\* for the room's own settings only.
created_power_levels(creator) ==
    [state_default |-> 50, events_default |-> 0, invite |-> 0, kick |-> 50,
     ban |-> 50, redact |-> 50, users_default |-> 0,
     events |-> [k \in {"m.room.power_levels"} |-> 100],
     users |-> [k \in {creator} |-> 100]]

\* room.apply_power_level_changes: each field the changes give replaces the
\* room's, the others stay.
apply_power_level_changes(levels, changes) ==
    [k \in DOMAIN levels |->
        IF k \in PowerLevelFields /\ changes[k] # None THEN changes[k].value
        ELSE levels[k]]

\* room.update_power_levels(vec![(user, level)])
update_power_levels(levels, user_id, level) ==
    [levels EXCEPT !.users = MapInsert(@, user_id, level)]

\* What a member can attempt in the room: a chat message, the RSVP state
\* event of RsvpService::set_rsvp, an invite, and kicking, banning or
\* redacting somebody else.
MemberActions == {"chat", "rsvp", "invite", "kick", "ban", "redact"}

\* The event type an attempt sends, where it sends one, and whether it is a
\* state event.
sent_event ==
    [chat |-> [type |-> "m.room.message", state |-> FALSE],
     rsvp |-> [type |-> "org.social.rsvp", state |-> TRUE]]

\* The homeserver's authorization: the level of the user against the level
\* the room's power levels require for the attempt.
user_level(levels, user_id) == MapGetOr(levels.users, user_id, levels.users_default)

required_level(levels, action) ==
    IF action \in DOMAIN sent_event
    THEN LET event == sent_event[action]
         IN  IF event.type \in DOMAIN levels.events THEN levels.events[event.type]
             ELSE IF event.state THEN levels.state_default
             ELSE levels.events_default
    ELSE levels[action]

authorized(levels, user_id, action) ==
    user_level(levels, user_id) >= required_level(levels, action)

\* What the homeserver and the client store answer during create_event.
EventOutcomes == [create_room_ok : BOOLEAN, get_room_found : BOOLEAN, sent : 0..3]

\* EventRoomService::create_event by the host: the room it leaves and its
\* result.  The power levels are the second of three updates of the new
\* room, made when client.get_room finds it.
create_event(guests_can_invite, io) ==
    LET created == created_power_levels(Host)
        changes == event_room_power_levels(guests_can_invite)
        applied == io.get_room_found /\ io.sent >= 2
        room == [guests_can_invite |-> guests_can_invite,
                 configured |-> applied,
                 power_levels |-> IF applied
                                  THEN apply_power_level_changes(created, changes)
                                  ELSE created]
    IN  IF ~io.create_room_ok THEN [room |-> None, result |-> Err("MatrixError")]
        ELSE IF io.get_room_found /\ io.sent < 3
        THEN [room |-> Some(room), result |-> Err("MatrixError")]
        ELSE [room |-> Some(room), result |-> Ok("!event:example.org")]

CreateEvent ==
    \E guests_can_invite \in BOOLEAN, io \in EventOutcomes :
        LET r == create_event(guests_can_invite, io)
        IN  /\ eventRoom = None
            /\ eventRoom' = r.room
            /\ eventCall' = [fn |-> "create_event"]
            /\ eventResult' = r.result
            /\ UNCHANGED <<coreVars, filterVars, postVars, profileVars, friendsVars>>

\* EventRoomService::add_cohost for a member of the room.
AddCohost ==
    \E cohost \in EventMembers, sent \in BOOLEAN :
        /\ eventRoom # None
        /\ eventCall' = [fn |-> "add_cohost", cohost |-> cohost]
        /\ IF sent
           THEN /\ eventRoom' = Some([eventRoom.value EXCEPT !.power_levels =
                                   update_power_levels(@, cohost, power_level_i64["CoHost"])])
                /\ eventResult' = Ok("()")
           ELSE /\ eventResult' = Err("MatrixError")
                /\ UNCHANGED eventRoom
        /\ UNCHANGED <<coreVars, filterVars, postVars, profileVars, friendsVars>>

\* The host or a member attempts something in the room and the homeserver
\* lets it pass or refuses it.
Attempt ==
    \E user_id \in EventMembers \cup {Host}, action \in MemberActions :
        /\ eventRoom # None
        /\ eventCall' = [fn |-> "attempt", user_id |-> user_id, action |-> action]
        /\ eventResult' = [tag |-> "bool",
                           value |-> authorized(eventRoom.value.power_levels,
                                                user_id, action)]
        /\ UNCHANGED <<eventRoom, coreVars, filterVars, postVars, profileVars, friendsVars>>

EventIdle ==
    /\ eventRoom = None
    /\ eventCall = [fn |-> "none"]
    /\ eventResult = NoResult

EventInit == EventIdle

EventNext ==
    \/ CreateEvent
    \/ AddCohost
    \/ Attempt

(***************************************************************************)
(* Specifications                                                          *)
(***************************************************************************)
Init == ShareInit /\ ValidateInit /\ ServiceInit /\ ReactionsInit /\ FeedInit /\ FilterInit
            /\ PostInit /\ ProfileInit /\ FriendsInit /\ EventInit
Next == ShareNext \/ ValidateNext \/ ServiceNext \/ ReactionsNext
            \/ FeedRoomsNext \/ FeedNext \/ FilterNext \/ PostNext
            \/ ProfileNext \/ FriendsNext \/ EventNext
Spec == Init /\ [][Next]_vars

\* One component at a time: its inputs are drawn, the others stay idle.
CoreIdle == ShareIdle /\ ValidateIdle /\ ServiceIdle /\ ReactionsInit /\ FeedIdle
SocialIdle == FilterIdle /\ PostIdle /\ ProfileIdle /\ FriendsIdle /\ EventIdle

InitShare == ShareInit /\ ValidateIdle /\ ServiceIdle /\ ReactionsInit /\ FeedIdle /\ SocialIdle
SpecShare == InitShare /\ [][ShareNext]_vars

InitValidate == ShareIdle /\ ValidateInit /\ ServiceIdle /\ ReactionsInit /\ FeedIdle /\ SocialIdle
SpecValidate == InitValidate /\ [][ValidateNext]_vars

InitService == ShareIdle /\ ValidateIdle /\ ServiceInit /\ ReactionsInit /\ FeedIdle /\ SocialIdle
SpecService == InitService /\ [][ServiceNext]_vars

InitReactions == ShareIdle /\ ValidateIdle /\ ServiceIdle /\ ReactionsInit /\ FeedIdle /\ SocialIdle
SpecReactions == InitReactions /\ [][ReactionsNext]_vars

InitFeedRooms == ShareIdle /\ ValidateIdle /\ ServiceIdle /\ ReactionsInit /\ FeedIdle /\ SocialIdle
SpecFeedRooms == InitFeedRooms /\ [][FeedRoomsNext]_vars

InitFilter == CoreIdle /\ FilterInit /\ PostIdle /\ ProfileIdle /\ FriendsIdle /\ EventIdle
SpecFilter == InitFilter /\ [][FilterNext]_vars

InitPost == CoreIdle /\ FilterIdle /\ PostInit /\ ProfileIdle /\ FriendsIdle /\ EventIdle
SpecPost == InitPost /\ [][PostNext]_vars

InitProfile == CoreIdle /\ FilterIdle /\ PostIdle /\ ProfileInit /\ FriendsIdle /\ EventIdle
SpecProfile == InitProfile /\ [][ProfileNext]_vars

InitFriends == CoreIdle /\ FilterIdle /\ PostIdle /\ ProfileIdle /\ FriendsInit /\ EventIdle
SpecFriends == InitFriends /\ [][FriendsNext]_vars

InitEvent == CoreIdle /\ FilterIdle /\ PostIdle /\ ProfileIdle /\ FriendsIdle /\ EventInit
SpecEvent == InitEvent /\ [][EventNext]_vars

InitFeed == ShareIdle /\ ValidateIdle /\ ServiceIdle /\ ReactionsInit /\ FeedInit /\ SocialIdle
SpecFeed == InitFeed /\ [][FeedNext]_vars

(***************************************************************************)
(* Properties of the sharing guard (checked under SpecShare)               *)
(***************************************************************************)
\* How restrictive an audience is, as the specification orders the levels:
\* Public < Friends < CloseFriends < Private.
Restrictiveness == [Public |-> 0, Friends |-> 1, CloseFriends |-> 2, Private |-> 3]

Returned == shareResult # NoResult
IsValidateShare == shareCall.fn = "privacy::validate_share"
IsGuardValidateShare == shareCall.fn = "sharing_guard::validate_share"
IsCanShare == shareCall.fn = "privacy::can_share"
IsCanShareTo == shareCall.fn = "PrivacyLevel::can_share_to"
IsValidateQuote == shareCall.fn = "sharing_guard::validate_quote"

LevelRulePasses ==
    Restrictiveness[shareCall.target_privacy] >= Restrictiveness[shareCall.source_privacy]

\* Positions of the attachments that are more restrictive than the target.
OffendingAttachments ==
    {i \in 1..Len(shareCall.attachments) :
        Restrictiveness[shareCall.target_privacy]
            < Restrictiveness[shareCall.attachments[i][2]]}

\* The mentioned users that are not members of the target room, in input order.
AbsentMentions ==
    IF IsValidateShare
    THEN SelectSeq(shareCall.mentions, LAMBDA u : u \notin shareCall.target_room_members)
    ELSE SelectSeq(shareCall.mentioned_users,
                   LAMBDA u : \A i \in 1..Len(shareCall.target_members) :
                                  shareCall.target_members[i] # u)

\* C1: validate_share (either implementation) returns Allowed only if the
\* target is equally or more restrictive than the source and than every
\* attachment.
C1_AllowedOnlyTowardRestrictive ==
    (Returned /\ (IsValidateShare \/ IsGuardValidateShare)
        /\ shareResult.tag = "Allowed") =>
        /\ LevelRulePasses
        /\ IsValidateShare => OffendingAttachments = {}

C1_Witness ==
    /\ IsValidateShare
    /\ Len(shareCall.attachments) = 2
    /\ shareCall.attachments[1][2] # shareCall.attachments[2][2]
    /\ shareCall.source_privacy = "Friends"
    /\ shareCall.target_privacy = "CloseFriends"
    /\ shareResult.tag = "Allowed"

\* C6: sharing_guard.rs validate_share(Friends, Public, ..) returns
\* RequiresConfirmation for every choice of mentioned users and target
\* members, never BlockedPrivacyLeak.
C6_FriendsToPublicRequiresConfirmation ==
    (Returned /\ IsGuardValidateShare
        /\ shareCall.source_privacy = "Friends" /\ shareCall.target_privacy = "Public")
    => shareResult.tag = "RequiresConfirmation"

C6_Witness ==
    /\ IsGuardValidateShare
    /\ shareCall.source_privacy = "Friends" /\ shareCall.target_privacy = "Public"
    /\ Len(shareCall.mentioned_users) = 2
    /\ shareCall.target_members = <<>>
    /\ shareResult.tag = "RequiresConfirmation"

\* The pairs (source, target) where the target is less restrictive.
LeakPairs ==
    {<<"Friends", "Public">>, <<"CloseFriends", "Public">>, <<"CloseFriends", "Friends">>,
     <<"Private", "Public">>, <<"Private", "Friends">>, <<"Private", "CloseFriends">>}

\* C7: privacy/mod.rs validate_share returns BlockedPrivacyLeak carrying the
\* given source and target levels for every leaking pair of levels, whatever
\* the mentions and attachments are.
C7_LeakBlockedWithLevels ==
    (Returned /\ IsValidateShare
        /\ <<shareCall.source_privacy, shareCall.target_privacy>> \in LeakPairs)
    => shareResult = [tag |-> "BlockedPrivacyLeak",
                      source_privacy |-> shareCall.source_privacy,
                      target_privacy |-> shareCall.target_privacy]

C7_Witness ==
    /\ IsValidateShare
    /\ shareCall.source_privacy = "Friends" /\ shareCall.target_privacy = "Public"
    /\ Len(shareCall.attachments) = 2 /\ Len(shareCall.mentions) = 2
    /\ shareResult.tag = "BlockedPrivacyLeak"

\* C8: when the level rule and the attachment rule pass and some mentioned
\* user is not a member of the target room, validate_share returns
\* MissingMentions listing exactly the absent mentioned users.
C8_MissingMentionsListed ==
    (Returned /\ (IsValidateShare \/ IsGuardValidateShare)
        /\ LevelRulePasses
        /\ (IsValidateShare => OffendingAttachments = {})
        /\ AbsentMentions # <<>>)
    => shareResult = [tag |-> "MissingMentions", missing_users |-> AbsentMentions]

\* C9: when the source can be shared to the target, privacy/mod.rs
\* validate_share returns AttachmentPrivacyMismatch naming the first offending
\* attachment in input order, and no attachment error when none offends.
C9_FirstOffendingAttachment ==
    (Returned /\ IsValidateShare /\ LevelRulePasses) =>
        IF OffendingAttachments # {}
        THEN LET first == CHOOSE i \in OffendingAttachments :
                              \A j \in OffendingAttachments : i <= j
             IN  shareResult = [tag |-> "AttachmentPrivacyMismatch",
                                attachment_room |-> shareCall.attachments[first][1],
                                attachment_privacy |-> shareCall.attachments[first][2]]
        ELSE shareResult.tag # "AttachmentPrivacyMismatch"

C9_Witness ==
    /\ IsValidateShare
    /\ Cardinality(OffendingAttachments) = 2
    /\ shareCall.attachments[1] # shareCall.attachments[2]
    /\ shareCall.attachments[1][1] # shareCall.attachments[2][1]
    /\ shareResult.tag = "AttachmentPrivacyMismatch"
    /\ shareResult.attachment_room = shareCall.attachments[1][1]

C12_QuoteConfirmedOnlyOutOfMorePrivate ==
    (Returned /\ IsValidateQuote) =>
        /\ shareResult.tag \in {"RequiresConfirmation", "Allowed"}
        /\ shareResult.tag = "RequiresConfirmation"
               <=> Restrictiveness[shareCall.original_room_privacy]
                       > Restrictiveness[shareCall.reply_room_privacy]

C12_Witness ==
    /\ IsValidateQuote
    /\ shareCall.original_room_privacy = "Private"
    /\ shareCall.reply_room_privacy = "Friends"
    /\ shareResult.tag = "RequiresConfirmation"

(***************************************************************************)
(* Properties of validate_rsvp_event (checked under SpecValidate)          *)
(***************************************************************************)
Validated == rsvpValidation # NoResult
KeyParses == is_user_id(rsvpEvent.state_key)

\* What the claim says about one call: Valid only for a state_key that is the
\* sender, SenderMismatch with both ids for another user id, InvalidContent
\* for a state_key that is no user id.
OwnershipDecided ==
    /\ rsvpValidation.tag = "Valid" => (KeyParses /\ rsvpEvent.state_key = rsvpSender)
    /\ (KeyParses /\ rsvpEvent.state_key # rsvpSender) =>
           rsvpValidation = [tag |-> "SenderMismatch",
                             claimed |-> rsvpEvent.state_key,
                             actual |-> rsvpSender]
    /\ ~KeyParses => rsvpValidation.tag = "InvalidContent"

\* C2 as stated: for every state event passed to validate_rsvp_event.
C2_EveryStateEventDecided == Validated => OwnershipDecided

\* C2 amended: for every org.social.rsvp state event the ownership rule
\* decides; a state event of any other type is Valid whatever its state_key.
C2_RsvpEventsDecided ==
    Validated =>
        IF rsvpEvent.event_type = "org.social.rsvp"
        THEN OwnershipDecided
        ELSE rsvpValidation.tag = "Valid"

C2_Witness ==
    /\ rsvpEvent.event_type = "org.social.rsvp"
    /\ KeyParses
    /\ rsvpEvent.state_key # rsvpSender
    /\ rsvpValidation.tag = "SenderMismatch"
    /\ rsvpValidation.claimed = rsvpEvent.state_key
    /\ rsvpValidation.actual = rsvpSender

(***************************************************************************)
(* Properties of RsvpService (checked under SpecService)                   *)
(***************************************************************************)
\* The state keys whose event was sent by the user the key names.
OwnedKeys ==
    {k \in Range(RoomKeys) : roomState[k] # NoEvent /\ roomState[k].sender = k}

OwnedWithStatus(status) == {k \in OwnedKeys : roomState[k].status = status}

RECURSIVE SumGuests(_)
SumGuests(keys) ==
    IF keys = {} THEN 0
    ELSE LET k == CHOOSE x \in keys : TRUE
         IN  roomState[k].guests + SumGuests(keys \ {k})

\* C3: every RSVP get_rsvps returns is the RSVP of an event whose state_key
\* is its sender, and get_rsvp_counts counts nothing but such events: no
\* counter exceeds what the owned events of that status account for.
C3_OnlyOwnedRsvpsCounted ==
    /\ (serviceCall.fn = "get_rsvps" /\ serviceResult.tag = "Ok") =>
           \A i \in 1..Len(serviceResult.value) :
               \E k \in OwnedKeys :
                   serviceResult.value[i] = [user_id |-> k,
                                             status |-> roomState[k].status,
                                             guests |-> roomState[k].guests]
    /\ (serviceCall.fn = "get_rsvp_counts" /\ serviceResult.tag = "Ok") =>
           /\ serviceResult.value.going <= Cardinality(OwnedWithStatus("Going"))
           /\ serviceResult.value.interested <= Cardinality(OwnedWithStatus("Interested"))
           /\ serviceResult.value.not_going <= Cardinality(OwnedWithStatus("NotGoing"))
           /\ serviceResult.value.total_guests <= SumGuests(OwnedWithStatus("Going"))

C3_Witness ==
    /\ serviceCall.fn = "get_rsvp_counts"
    /\ serviceResult.tag = "Ok"
    /\ roomState[Alice] # NoEvent /\ roomState[Alice].sender = Bob
    /\ roomState[Alice].status = "Going" /\ roomState[Alice].guests > 0
    /\ roomState[NotAUserId] # NoEvent
    /\ roomState[Bob] # NoEvent /\ roomState[Bob].sender = Bob

(***************************************************************************)
(* Properties of ReactionSummary (checked under SpecReactions)             *)
(***************************************************************************)
RECURSIVE SumCounts(_, _)
SumCounts(counts, emojis) ==
    IF emojis = {} THEN 0
    ELSE LET e == CHOOSE x \in emojis : TRUE
         IN  counts[e] + SumCounts(counts, emojis \ {e})

\* C4: after any sequence of add_reaction, remove_reaction, merge and clear,
\* count(emoji) is the size of the emoji's user set, total() is the sum of the
\* counts, and no emoji is kept with a zero count or an empty user set.
C4_CountsMatchUserSets ==
    /\ \A emoji \in Range(Emojis) :
           count(summary, emoji)
               = Cardinality(MapGetOr(summary.users_by_emoji, emoji, {}))
    /\ total(summary) = SumCounts(summary.counts, DOMAIN summary.counts)
    /\ \A emoji \in DOMAIN summary.counts : summary.counts[emoji] # 0
    /\ \A emoji \in DOMAIN summary.users_by_emoji : summary.users_by_emoji[emoji] # {}

C4_Witness ==
    /\ removed.tag = "Some"
    /\ DOMAIN summary.counts = {"thumbsup"}
    /\ summary.counts["thumbsup"] = 2
    /\ summary.total = 2
    /\ other.total > 0

\* C5: for every sequence of add_reaction calls on an empty summary, the count
\* of an emoji is the number of distinct users who added it and total is the
\* number of distinct (user, emoji) pairs, whatever the repeats and their ids.
C5_CountsDistinctUsers ==
    /\ \A emoji \in Range(Emojis) :
           count(other, emoji)
               = Cardinality({u \in Range(ReactionUsers) :
                                 \E id \in EventIds : <<emoji, u, id>> \in otherAdded})
    /\ total(other) = Cardinality({<<t[1], t[2]>> : t \in otherAdded})

C5_Witness ==
    /\ Cardinality(otherAdded) = 3
    /\ \E t1 \in otherAdded, t2 \in otherAdded :
           t1[1] = t2[1] /\ t1[2] = t2[2] /\ t1[3] # t2[3]
    /\ total(other) = 2

\* The users who reacted with an emoji, none for an emoji without entry.
UsersOf(self, emoji) == MapGetOr(self.users_by_emoji, emoji, {})

RECURSIVE SumOver(_, _)
SumOver(f, keys) ==
    IF keys = {} THEN 0
    ELSE LET k == CHOOSE x \in keys : TRUE
         IN  f[k] + SumOver(f, keys \ {k})

\* C13: for the summary S of any reachable state and any (emoji, user) with
\* which the user has not reacted in S, add_reaction(emoji, user, id) followed
\* by remove_reaction(emoji, user) returns id and leaves counts, user sets,
\* event ids and total exactly as in S, with no entry left for an emoji whose
\* count is back at 0.
C13_RemoveUndoesAdd ==
    \A emoji \in Range(Emojis), user_id \in Range(ReactionUsers), event_id \in EventIds :
        ~has_user_reacted(summary, emoji, user_id) =>
            LET added == add_reaction(summary, emoji, user_id, event_id)
                undone == remove_reaction(added, emoji, user_id)
            IN  /\ has_user_reacted(added, emoji, user_id)
                /\ undone.result = [tag |-> "Some", value |-> event_id]
                /\ undone.summary.counts = summary.counts
                /\ undone.summary.users_by_emoji = summary.users_by_emoji
                /\ undone.summary.event_ids = summary.event_ids
                /\ undone.summary.total = summary.total
                /\ count(summary, emoji) = 0 =>
                       /\ emoji \notin DOMAIN undone.summary.counts
                       /\ emoji \notin DOMAIN undone.summary.users_by_emoji

\* A remove_reaction has just taken back the only reaction with an emoji,
\* the other emoji is still counted.
C13_Witness ==
    /\ removed = [tag |-> "Some", value |-> "$2:example.org"]
    /\ ~has_user_reacted(summary, "heart", "@alice:example.org")
    /\ DOMAIN summary.counts = {"thumbsup"}
    /\ summary.total = 1

\* C14: merging the summary of any reachable state into an empty summary
\* gives a summary with the same counts, the same user sets, the same
\* (user, emoji) to event id mapping and the same total.
C14_MergeIntoEmptyCopies ==
    \A S \in {summary, other} :
        LET merged == merge(new_summary, S)
        IN  /\ merged.counts = S.counts
            /\ merged.users_by_emoji = S.users_by_emoji
            /\ merged.event_ids = S.event_ids
            /\ merged.total = S.total

\* The summary holds what a merge into the empty summary leaves: the three
\* reactions of the other summary, under two emojis.
C14_Witness ==
    /\ other.total = 3
    /\ DOMAIN other.counts = {"heart", "thumbsup"}
    /\ summary = other
    /\ removed = NotRemove /\ top = NotTop

\* C15: after a.merge(b) the count of every emoji is the size of the union of
\* a's and b's user sets for it and total is the sum of those sizes; merging
\* a summary into itself leaves it unchanged, and merging b a second time
\* changes nothing.
C15_MergeNeverDoubleCounts ==
    LET merged == merge(summary, other)
        union == [emoji \in Range(Emojis) |->
                     UsersOf(summary, emoji) \cup UsersOf(other, emoji)]
    IN  /\ \A emoji \in Range(Emojis) :
               /\ count(merged, emoji) = Cardinality(union[emoji])
               /\ UsersOf(merged, emoji) = union[emoji]
        /\ total(merged)
               = SumOver([emoji \in Range(Emojis) |-> Cardinality(union[emoji])],
                         Range(Emojis))
        /\ merge(summary, summary) = summary
        /\ merge(other, other) = other
        /\ merge(merged, other) = merged

\* Two summaries that overlap in part: a pair in both, a pair only in the
\* first, a pair only in the second.
C15_Witness ==
    /\ \E k \in DOMAIN summary.event_ids : k \in DOMAIN other.event_ids
    /\ \E k \in DOMAIN summary.event_ids : k \notin DOMAIN other.event_ids
    /\ \E k \in DOMAIN other.event_ids : k \notin DOMAIN summary.event_ids
    /\ \E emoji \in Range(Emojis) :
           /\ UsersOf(summary, emoji) # {} /\ UsersOf(other, emoji) # {}
           /\ UsersOf(summary, emoji) # UsersOf(other, emoji)
    /\ merge(summary, other) # summary

\* The position of an emoji in the iteration order of the counts map.
EmojiIndex(emoji) == CHOOSE i \in 1..Len(Emojis) : Emojis[i] = emoji

\* C16: top_reactions(k) returns min(k, number of emojis) entries, each an
\* emoji of the summary with its count, in non-increasing order of count,
\* every returned emoji counting at least as much as every omitted one; among
\* equal counts the iteration order of the counts map decides, so the result is
\* fixed by the summary.
C16_TopReactionsOrdered ==
    top # NotTop =>
        LET r == top.reactions
            n == Cardinality(DOMAIN summary.counts)
            returned == {r[i][1] : i \in 1..Len(r)}
            omitted == DOMAIN summary.counts \ returned
        IN  /\ Len(r) = IF top.limit < n THEN top.limit ELSE n
            /\ \A i \in 1..Len(r) :
                   /\ r[i][1] \in DOMAIN summary.counts
                   /\ r[i][2] = summary.counts[r[i][1]]
            /\ Cardinality(returned) = Len(r)
            /\ \A i, j \in 1..Len(r) :
                   i < j => \/ r[i][2] > r[j][2]
                            \/ /\ r[i][2] = r[j][2]
                               /\ EmojiIndex(r[i][1]) < EmojiIndex(r[j][1])
            /\ \A e \in returned, o \in omitted :
                   \/ summary.counts[e] > summary.counts[o]
                   \/ /\ summary.counts[e] = summary.counts[o]
                      /\ EmojiIndex(e) < EmojiIndex(o)

\* top_reactions(1) of a summary whose second emoji counts more.
C16_Witness ==
    /\ top # NotTop
    /\ top.limit = 1
    /\ count(summary, "heart") = 1
    /\ count(summary, "thumbsup") = 2
    /\ top.reactions = << <<"thumbsup", 2>> >>

(***************************************************************************)
(* Properties of FeedAggregator (checked under SpecFeed and SpecFeedRooms) *)
(***************************************************************************)
FeedReturned == feedCall.fn = "get_aggregated_feed" /\ feedResult.tag = "Ok"

\* The engagement score of a post: its reaction counts plus its comments.
Score(item) == SumOver(item.reactions, DOMAIN item.reactions) + item.comment_count

AuthorIndex(user_id) == CHOOSE i \in 1..Len(ReactionUsers) : ReactionUsers[i] = user_id

\* x ranks strictly ahead of y under a sort order.
RanksAhead(order, x, y) ==
    IF order = "Chronological" THEN x.origin_server_ts > y.origin_server_ts
    ELSE IF order = "Engagement" THEN Score(x) > Score(y)
    ELSE \/ AuthorIndex(x.sender) < AuthorIndex(y.sender)
         \/ /\ x.sender = y.sender
            /\ x.origin_server_ts > y.origin_server_ts

\* What a sort order compares of an item.
SortKey(order, item) ==
    IF order = "Chronological" THEN <<item.origin_server_ts>>
    ELSE IF order = "Engagement" THEN <<Score(item)>>
    ELSE <<item.sender, item.origin_server_ts>>

\* The items fetched: those of the tracked rooms the client knows.
FetchedItems ==
    UNION {Range(timeline[r].value) :
              r \in {q \in Range(aggregator.feed_rooms) \cap ClientFeedRooms :
                         timeline[q].tag = "Ok"}}

RoomOrders(rooms) ==
    {p \in [1..Len(rooms) -> Range(rooms)] : Range(p) = Range(rooms)}

RECURSIVE Concatenation(_)
Concatenation(rooms) ==
    IF rooms = <<>> THEN <<>>
    ELSE (IF Head(rooms) \in ClientFeedRooms THEN timeline[Head(rooms)].value ELSE <<>>)
             \o Concatenation(Tail(rooms))

PositionIn(items, x) == CHOOSE i \in 1..Len(items) : items[i] = x

C20_TrackedRoomsUnique ==
    LET rooms == aggregator.feed_rooms
    IN  /\ \A i, j \in 1..Len(rooms) : i # j => rooms[i] # rooms[j]
        /\ \A r \in Range(rooms) : add_feed_room(aggregator, r) = aggregator
        /\ \A r \in FeedRoomIds :
               contains_room(aggregator, r) <=> lastRoomCall[r] = "add"
        /\ room_count(aggregator) = Cardinality(Range(rooms))
        /\ feedCall.fn = "contains_room" =>
               feedResult.value = (lastRoomCall[feedCall.room_id] = "add")
        /\ feedCall.fn = "room_count" =>
               feedResult.value = Cardinality(Range(rooms))

\* The first room of the list was just added again, after another room was
\* added behind it and a third one added and removed.
C20_Witness ==
    /\ feedCall = [fn |-> "add_feed_room", room_id |-> RoomA]
    /\ aggregator.feed_rooms = <<RoomA, RoomB>>
    /\ lastRoomCall = [r \in FeedRoomIds |-> IF r = RoomGone THEN "remove" ELSE "add"]

\* The positions of the tracked rooms the client knows whose fetch fails.
FailingPositions ==
    {i \in 1..Len(aggregator.feed_rooms) :
        /\ aggregator.feed_rooms[i] \in ClientFeedRooms
        /\ timeline[aggregator.feed_rooms[i]].tag = "Err"}

C29_ImplementationsAgreeOnAllowed ==
    /\ (IsValidateShare /\ Returned
            /\ shareCall.mentions = <<>> /\ shareCall.attachments = <<>>) =>
           \A target_members \in SeqsUpTo(Users, MaxMentions) :
               (shareResult = Allowed) <=>
                   (guard_validate_share(shareCall.source_privacy, shareCall.target_privacy,
                                         <<>>, target_members) = Allowed)
    /\ (IsGuardValidateShare /\ Returned /\ shareCall.mentioned_users = <<>>) =>
           ((shareResult = Allowed) <=>
               (validate_share(shareCall.source_privacy, shareCall.target_privacy,
                               <<>>, <<>>) = Allowed))

\* Friends content offered to a Public room: sharing_guard.rs asks for a
\* confirmation where privacy/mod.rs blocks, and neither allows.
C29_Witness ==
    /\ IsGuardValidateShare
    /\ shareCall.source_privacy = "Friends"
    /\ shareCall.target_privacy = "Public"
    /\ shareCall.mentioned_users = <<>>
    /\ shareResult.tag = "RequiresConfirmation"
    /\ validate_share("Friends", "Public", <<>>, <<>>).tag = "BlockedPrivacyLeak"

(***************************************************************************)
(* Event ids of the reaction summary (SpecReactions)                       *)
(***************************************************************************)
\* The (user, emoji) pairs present in the user sets of a summary.
ReactingPairs(self) ==
    UNION {{<<user_id, emoji>> : user_id \in self.users_by_emoji[emoji]} :
              emoji \in DOMAIN self.users_by_emoji}

\* C30: the event id stored for a (user, emoji) pair is that of the first
\* accepted reaction: adding the pair again under any event id, or merging a
\* summary that holds the pair under another id, leaves the stored id as it
\* is, and a remove_reaction after either returns that id; the keys of the
\* event-id map are exactly the pairs present in the user sets.
C30_FirstEventIdKept ==
    /\ \A S \in {summary, other} : DOMAIN S.event_ids = ReactingPairs(S)
    /\ \A key \in DOMAIN summary.event_ids :
           LET first == summary.event_ids[key]
               merged == merge(summary, other)
           IN  /\ \A event_id \in EventIds :
                      LET again == add_reaction(summary, key[2], key[1], event_id)
                      IN  /\ again.event_ids = summary.event_ids
                          /\ remove_reaction(again, key[2], key[1]).result = Some(first)
               /\ merged.event_ids[key] = first
               /\ remove_reaction(merged, key[2], key[1]).result = Some(first)
               /\ DOMAIN merged.event_ids = ReactingPairs(merged)

\* Both summaries hold alice's heart, under different event ids, and the
\* first summary already holds the other one's second pair from a merge.
C30_Witness ==
    /\ <<"@alice:example.org", "heart">> \in DOMAIN summary.event_ids
    /\ <<"@alice:example.org", "heart">> \in DOMAIN other.event_ids
    /\ summary.event_ids[<<"@alice:example.org", "heart">>] = "$1:example.org"
    /\ other.event_ids[<<"@alice:example.org", "heart">>] = "$2:example.org"
    /\ DOMAIN other.event_ids \subseteq DOMAIN summary.event_ids
    /\ Cardinality(DOMAIN other.event_ids) = 2
    /\ merge(summary, other) = summary

(***************************************************************************)
(* Guest counts of RSVP records (SpecService)                              *)
(***************************************************************************)
\* C23: every RSVP record decoded from a room's state or sent by set_rsvp
\* (and submit_rsvp, which forwards to it) has a guest count of at least 1,
\* and a record decoded without a guests field has the guest count 1.
C23_GuestsAtLeastOne ==
    /\ \A k \in DOMAIN roomState :
           roomState[k] # NoEvent => roomState[k].guests >= 1
    /\ \A json \in RsvpContentJson :
           "guests" \notin DOMAIN json => deserialize(json).guests = 1

(***************************************************************************)
(* Properties of the feed filter (checked under SpecFilter)                *)
(***************************************************************************)
\* C21: FeedFilterSettings::apply returns a subsequence of its input, in the
\* input's order, holding exactly the items for which matches is true, and
\* applying the same settings to the result returns the result.
C21_ApplyKeepsMatchingInOrder ==
    filterResult.tag = "apply" =>
        LET r == filterResult.value
            kept == {i \in 1..Len(feedItems) : matches(settings, feedItems[i])}
        IN  /\ \E f \in [1..Len(r) -> 1..Len(feedItems)] :
                   /\ \A k \in 1..Len(r) : r[k] = feedItems[f[k]]
                   /\ \A k, m \in 1..Len(r) : k < m => f[k] < f[m]
                   /\ {f[k] : k \in 1..Len(r)} = kept
            /\ apply(settings, r) = r

\* With bob muted, the second of three posts is dropped and the other two
\* come back in their order.
C21_Witness ==
    /\ filterResult.tag = "apply"
    /\ settings.muted_authors = {"@bob:example.org"}
    /\ Len(feedItems) = 3
    /\ feedItems[2].sender = "@bob:example.org"
    /\ filterResult.value = <<feedItems[1], feedItems[3]>>

\* The age of a post at the time of the call, in milliseconds.
AgeMillis(item) == now - item.origin_server_ts

\* C22: with max_age_seconds greater than 0, matches and apply keep only
\* posts newer than that many seconds: a post older than max_age_seconds is
\* excluded even when it passes every other criterion.
C22_OlderThanMaxAgeExcluded ==
    settings.max_age_seconds > 0 =>
        /\ \A item \in Range(feedItems) :
               AgeMillis(item) > settings.max_age_seconds * 1000 => ~matches(settings, item)
        /\ filterResult.tag = "apply" =>
               \A k \in 1..Len(filterResult.value) :
                   AgeMillis(filterResult.value[k]) <= settings.max_age_seconds * 1000

(***************************************************************************)
(* Edit history of a post (checked under SpecPost)                         *)
(***************************************************************************)
\* The latest of a non-empty set of timestamps.
Latest(timestamps) == CHOOSE t \in timestamps : \A u \in timestamps : u <= t

\* C28: after any sequence of add_edit calls edit_timestamps is ordered most
\* recent first, last_modified returns the most recent edit timestamp (the
\* original timestamp when there is no edit), and is_edited is true exactly
\* when edit_timestamps is not empty.
C28_EditsMostRecentFirst ==
    /\ \A i, j \in 1..Len(metadata.edit_timestamps) :
           i < j => metadata.edit_timestamps[i] >= metadata.edit_timestamps[j]
    /\ postResult.tag = "last_modified" =>
           postResult.value =
               IF metadata.edit_timestamps = <<>> THEN metadata.origin_server_ts
               ELSE Latest(Range(metadata.edit_timestamps))
    /\ metadata.is_edited <=> (metadata.edit_timestamps # <<>>)

(***************************************************************************)
(* One profile room per user (checked under SpecProfile)                   *)
(***************************************************************************)
\* C24: once create_profile_room has succeeded, every later
\* create_profile_room of the same user returns AlreadyExists with the first
\* room's id and creates no second room, and get_or_create_profile_room
\* returns the first room's id.  Calls that end in an error of the Matrix
\* API are left aside.
C24_SecondCreateAlreadyExists ==
    profileCreated # <<>> =>
        /\ Len(profileCreated) = 1
        /\ profileRooms[Len(profileRooms)].room_id = profileCreated[1]
        /\ (profileCall.fn = "create_profile_room" /\ profileResult.tag = "Err"
                /\ profileResult.error # "MatrixError") =>
               profileResult = Err(AlreadyExists(profileCreated[1]))
        /\ (profileCall.fn = "get_or_create_profile_room" /\ profileResult.tag = "Ok") =>
               profileResult.value = profileCreated[1]

(***************************************************************************)
(* One friends space per user (checked under SpecFriends)                  *)
(***************************************************************************)
\* C27: get_or_create_friends_space returns the cached id without searching
\* or creating while the cache is set; once a space has been created, a
\* later get_or_create_friends_space, also after clear_cache, returns that
\* space's id and creates no other, so that at most one friends space is
\* ever created for a user; a failed call leaves the cache unset.
C27_OneFriendsSpace ==
    /\ Len(CreatedSpaces) <= 1
    /\ friendsCall.fn = "get_or_create_friends_space" =>
           /\ friendsCall.cached # None =>
                  /\ ~friendsCall.searched
                  /\ ~friendsCall.created
                  /\ friendsResult = Ok(friendsCall.cached.value)
           /\ (friendsResult.tag = "Ok" /\ CreatedSpaces # <<>>) =>
                  friendsResult.value = CreatedSpaces[1].room_id
           /\ friendsResult.tag = "Err" => space_id = None

(***************************************************************************)
(* Guests of an event room (checked under SpecEvent)                       *)
(***************************************************************************)
\* C25: in an event room configured with event_room_power_levels a Guest,
\* at power level 0, can chat and can submit an RSVP, the org.social.rsvp
\* state event of set_rsvp, can invite exactly when guests_can_invite is
\* true, and cannot kick, ban or redact.
C25_GuestPermissions ==
    (/\ eventCall.fn = "attempt"
     /\ eventRoom.value.configured
     /\ user_level(eventRoom.value.power_levels, eventCall.user_id)
            = power_level_i64["Guest"]) =>
        /\ eventCall.action \in {"chat", "rsvp"} => eventResult.value
        /\ eventCall.action = "invite" =>
               (eventResult.value <=> eventRoom.value.guests_can_invite)
        /\ eventCall.action \in {"kick", "ban", "redact"} => ~eventResult.value


=============================================================================
